---- MODULE Spec2Model ----
(***************************************************************************)
(* SunSynk battery monitoring: site validation, discovery, the fetch       *)
(* pipeline, the analyzer and the fetch/analyze/publish cycle.             *)
(*                                                                         *)
(* Python values are represented as follows.                               *)
(*   None (of an Optional[str])   the string NONE                          *)
(*   an Optional object           <<>> for None, <<x>> for the object x    *)
(*   a dict (insertion ordered)   a sequence of [key, value] records with  *)
(*                                pairwise different keys                  *)
(*   an int or str identifier     [t |-> "int" | "str", v |-> digits]      *)
(***************************************************************************)
EXTENDS Integers, Sequences, FiniteSets, TLC

VARIABLES
    sites_config,       \* the sla_sites list of the sites configuration file
    upstream,           \* the remote fleet: listing pages and inverter rosters
    today,              \* the calendar date (a day number)
    validator,          \* DataFetcher.validator: <<>> or <<all_sites_data>>
    cache_file,         \* data/cache/site_validator_cache.json: <<>> or <<document>>
    last_refresh_file,  \* data/cache/last_refresh.txt: <<>> or <<text>>
    validated_sites,    \* MonitoringService.validated_sites
    pc,                 \* the last operation that ran
    env,                \* the outcomes of the remote calls of the last operation
    requests,           \* the outbound requests of the last operation and the
                        \* waits between them, in order
    fetched,            \* the mapping returned by the last fetch_data
    analysis,           \* the mapping returned by the last analyze
    published,          \* the mappings handed to publish in the last cycle
    stored,             \* the snapshot last handed to _save_to_cache: <<>> or <<data>>
    discovered,         \* what the last fetch_all_sites returned: <<>> or <<snapshot>>
    events,             \* the steps of the current loop iteration, in order
    now,                \* the wall clock: seconds since midnight
    data_fetch_interval,\* config['monitoring']['fetch_interval'], in seconds
    daily,              \* how often the sweep, the refresh and the cycle ran today
    tasks               \* the get_plants tasks of a gather, by page

\* the clock of the loop and what is counted with it
clock_vars == <<now, data_fetch_interval, daily>>

vars == <<sites_config, upstream, today, validator, cache_file, last_refresh_file,
          validated_sites, pc, env, requests, fetched, analysis, published, stored,
          discovered, events, now, data_fetch_interval, daily, tasks>>

----------------------------------------------------------------------------
(* Python values *)

NONE == "<None>"

IntId(d) == [t |-> "int", v |-> d]
StrId(d) == [t |-> "str", v |-> d]

\* str(x) of an int or a str: the decimal digits, the type is lost
Str(x) == x.v

\* dict: d[k] = v keeps the position of an existing key, else appends
HasKey(d, k) == \E i \in 1..Len(d) : d[i].key = k
KeyIndex(d, k) == CHOOSE i \in 1..Len(d) : d[i].key = k
Get(d, k) == d[KeyIndex(d, k)].value
DictSet(d, k, v) ==
    IF HasKey(d, k) THEN [d EXCEPT ![KeyIndex(d, k)] = [key |-> k, value |-> v]]
    ELSE Append(d, [key |-> k, value |-> v])
Keys(d) == {d[i].key : i \in 1..Len(d)}
KeySeq(d) == [i \in 1..Len(d) |-> d[i].key]

Range(s) == {s[i] : i \in 1..Len(s)}
Take(s, n) == SubSeq(s, 1, n)
Min2(a, b) == IF a <= b THEN a ELSE b
Abs(x) == IF x < 0 THEN -x ELSE x

----------------------------------------------------------------------------
(* src/validators/site_validator.py *)

\* SiteValidation(): the dataclass defaults
SiteValidation ==
    [exists |-> FALSE, id_matches |-> FALSE, has_inverters |-> FALSE,
     status |-> "invalid", inverter_sn |-> NONE, inverter_type |-> NONE,
     site_id |-> NONE]

\* inv_type in ['M', 'M1'] or inv_type is None
Eligible(inv_type) == inv_type \in {"M", "M1"} \/ inv_type = NONE

\* inv_type or 'M'  (the empty string is falsy too)
TypeOrM(inv_type) == IF inv_type = NONE \/ inv_type = "" THEN "M" ELSE inv_type

\* a scan without the break: the last inverter of an accepted type wins
RECURSIVE ScanInvertersLast(_, _)
ScanInvertersLast(inverters, validation) ==
    IF inverters = <<>> THEN validation
    ELSE ScanInvertersLast(Tail(inverters),
             IF Eligible(Head(inverters).value)
             THEN [validation EXCEPT !.has_inverters = TRUE,
                                     !.inverter_sn = Head(inverters).key,
                                     !.inverter_type = TypeOrM(Head(inverters).value),
                                     !.status = "valid"]
             ELSE validation)

\* for sn, inv_type in site_data['inverters'].items(): ... break
RECURSIVE ScanInverters(_, _)
ScanInverters(inverters, validation) ==
    IF inverters = <<>> THEN validation
    ELSE IF Eligible(Head(inverters).value)
         THEN [validation EXCEPT !.has_inverters = TRUE,
                                 !.inverter_sn = Head(inverters).key,
                                 !.inverter_type = TypeOrM(Head(inverters).value),
                                 !.status = "valid"]
         ELSE ScanInverters(Tail(inverters), validation)

\* {str(site_data['id']): {'name': site_name, 'data': site_data} for ... .items()}
RECURSIVE SiteIdMapFrom(_, _)
SiteIdMapFrom(items, m) ==
    IF items = <<>> THEN m
    ELSE SiteIdMapFrom(Tail(items),
                       DictSet(m, Str(Head(items).value.id),
                               [name |-> Head(items).key, data |-> Head(items).value]))

site_id_map(all_sites_data) == SiteIdMapFrom(all_sites_data, <<>>)

\* a validation that looks the configured site up by its name
ValidateSiteByName(site, all_sites_data) ==
    LET validation == [SiteValidation EXCEPT !.site_id = Str(site.site_id)]
    IN  IF HasKey(all_sites_data, site.name)
        THEN LET site_data == Get(all_sites_data, site.name)
                 found == [validation EXCEPT !.exists = TRUE, !.id_matches = TRUE]
             IN  IF site_data.inverters # <<>>
                 THEN ScanInverters(site_data.inverters[1], found)
                 ELSE found
        ELSE validation

\* a validation that accepts the first inverter of a roster whatever its type
ValidateSiteAnyType(site, all_sites_data) ==
    LET site_id == Str(site.site_id)
        map == site_id_map(all_sites_data)
        validation == [SiteValidation EXCEPT !.site_id = site_id]
    IN  IF HasKey(map, site_id)
        THEN LET site_data == Get(map, site_id).data
                 found == [validation EXCEPT !.exists = TRUE, !.id_matches = TRUE]
             IN  IF site_data.inverters # <<>> /\ site_data.inverters[1] # <<>>
                 THEN [found EXCEPT !.has_inverters = TRUE,
                                    !.inverter_sn = site_data.inverters[1][1].key,
                                    !.inverter_type = site_data.inverters[1][1].value,
                                    !.status = "valid"]
                 ELSE found
        ELSE validation

\* the body of the loop over sla_sites, for one configured site
ValidateSite(site, all_sites_data) ==
    LET site_id == Str(site.site_id)
        map == site_id_map(all_sites_data)
        validation == [SiteValidation EXCEPT !.site_id = site_id]
    IN  IF HasKey(map, site_id)
        THEN LET site_data == Get(map, site_id).data
                 found == [validation EXCEPT !.exists = TRUE, !.id_matches = TRUE]
             IN  IF site_data.inverters # <<>>      \* 'inverters' in site_data
                 THEN ScanInverters(site_data.inverters[1], found)
                 ELSE found
        ELSE validation

RECURSIVE ValidateLoop(_, _, _)
ValidateLoop(sla_sites, all_sites_data, results) ==
    IF sla_sites = <<>> THEN results
    ELSE ValidateLoop(Tail(sla_sites), all_sites_data,
                      DictSet(results, Head(sla_sites).name,
                              ValidateSite(Head(sla_sites), all_sites_data)))

\* SiteValidator.validate_sites: a dict site name -> SiteValidation
validate_sites(sla_sites, all_sites_data) == ValidateLoop(sla_sites, all_sites_data, <<>>)

----------------------------------------------------------------------------
(* src/core/analyzer.py *)

\* The string-encoded numbers of the telemetry records and float() of each, in
\* tenths. Any other string makes float() raise ValueError.
NumericStrings == {"5", "5.0", "7", "10", "51.9", "52.1", "52.3"}

Float(s) ==
    CASE s = "5"    -> 50
      [] s = "5.0"  -> 50
      [] s = "7"    -> 70
      [] s = "10"   -> 100
      [] s = "51.9" -> 519
      [] s = "52.1" -> 521
      [] s = "52.3" -> 523

FloatRaises(s) == s \notin NumericStrings

\* next((info['records'] for info in data if info['label'] == label), [])
\* an info is [label, records], records being <<>> when the key is missing
RECURSIVE FirstInfo(_, _)
FirstInfo(infos, label) ==
    IF infos = <<>> THEN <<>>
    ELSE IF Head(infos).label = label THEN <<Head(infos)>>
         ELSE FirstInfo(Tail(infos), label)

RecordsRaise(infos, label) ==
    FirstInfo(infos, label) # <<>> /\ FirstInfo(infos, label)[1].records = <<>>

Records(infos, label) ==
    IF FirstInfo(infos, label) = <<>> THEN <<>> ELSE FirstInfo(infos, label)[1].records[1]

\* min(soc_records, key=lambda x: float(x['value'])): the first minimal record
RECURSIVE MinRecordFrom(_, _)
MinRecordFrom(records, best) ==
    IF records = <<>> THEN best
    ELSE MinRecordFrom(Tail(records),
                       IF Float(Head(records).value) < Float(best.value)
                       THEN Head(records) ELSE best)

\* a minimum that keeps the last minimal record
MinRecordLast(records) ==
    records[CHOOSE k \in 1..Len(records) :
                /\ \A j \in 1..Len(records) :
                       Float(records[k].value) <= Float(records[j].value)
                /\ \A j \in (k + 1)..Len(records) :
                       Float(records[j].value) > Float(records[k].value)]

MinRecord(records) == MinRecordFrom(Tail(records), Head(records))

Last(s) == s[Len(s)]

\* a loop over the longer series, the shorter one padded with its last record
RECURSIVE MaxDiffLoopPadded(_, _, _, _)
MaxDiffLoopPadded(v_bat_records, vbms_records, i, a) ==
    IF i > Len(v_bat_records) /\ i > Len(vbms_records) THEN a
    ELSE LET v_bat == v_bat_records[Min2(i, Len(v_bat_records))]
             vbms == vbms_records[Min2(i, Len(vbms_records))]
             diff == Abs(Float(v_bat.value) - Float(vbms.value))
         IN  MaxDiffLoopPadded(v_bat_records, vbms_records, i + 1,
                 IF a.max_v_diff = <<>> \/ diff > a.max_v_diff[1]
                 THEN [a EXCEPT !.max_v_diff = <<diff>>,
                                !.max_diff_time = v_bat.time,
                                !.max_v_bat = <<Float(v_bat.value)>>,
                                !.max_v_bat_time = v_bat.time]
                 ELSE a)

\* a loop in which a later pair with the same differential replaces the earlier
RECURSIVE MaxDiffLoopLastWins(_, _, _, _)
MaxDiffLoopLastWins(v_bat_records, vbms_records, i, a) ==
    IF i > Len(v_bat_records) \/ i > Len(vbms_records) THEN a
    ELSE LET v_bat_value == Float(v_bat_records[i].value)
             vbms_value == Float(vbms_records[i].value)
             diff == Abs(v_bat_value - vbms_value)
         IN  MaxDiffLoopLastWins(v_bat_records, vbms_records, i + 1,
                 IF a.max_v_diff = <<>> \/ diff >= a.max_v_diff[1]
                 THEN [a EXCEPT !.max_v_diff = <<diff>>,
                                !.max_diff_time = v_bat_records[i].time,
                                !.max_v_bat = <<v_bat_value>>,
                                !.max_v_bat_time = v_bat_records[i].time]
                 ELSE a)

\* the loop over zip(v_bat_records, vbms_records), from pair i on
RECURSIVE MaxDiffLoop(_, _, _, _)
MaxDiffLoop(v_bat_records, vbms_records, i, a) ==
    IF i > Len(v_bat_records) \/ i > Len(vbms_records) THEN a
    ELSE LET v_bat_value == Float(v_bat_records[i].value)
             vbms_value == Float(vbms_records[i].value)
             diff == Abs(v_bat_value - vbms_value)
         IN  MaxDiffLoop(v_bat_records, vbms_records, i + 1,
                 IF a.max_v_diff = <<>> \/ diff > a.max_v_diff[1]
                 THEN [a EXCEPT !.max_v_diff = <<diff>>,
                                !.max_diff_time = v_bat_records[i].time,
                                !.max_v_bat = <<v_bat_value>>,
                                !.max_v_bat_time = v_bat_records[i].time]
                 ELSE a)

\* the SiteAnalysis constructed first: everything offline or absent
OfflineAnalysis(site_info) ==
    [site_id |-> site_info.site_id,
     inverter_sn |-> site_info.inverter_sn,
     inverter_type |-> site_info.inverter_type,
     lowest_soc |-> "OFFLINE", lowest_soc_time |-> NONE,
     current_soc |-> "OFFLINE", current_soc_time |-> NONE,
     max_v_diff |-> <<>>, max_diff_time |-> NONE,
     max_v_bat |-> <<>>, max_v_bat_time |-> NONE,
     current_v_bat |-> <<>>, current_vbms |-> <<>>, current_voltage_time |-> NONE,
     yesterday_max_soc |-> site_info.yesterday_max_soc]

SocPart(a, soc_records) ==
    IF soc_records # <<>>
    THEN [a EXCEPT !.lowest_soc = MinRecord(soc_records).value,
                   !.lowest_soc_time = MinRecord(soc_records).time,
                   !.current_soc = Last(soc_records).value,
                   !.current_soc_time = Last(soc_records).time]
    ELSE a

VoltagePart(a, v_bat_records, vbms_records) ==
    IF v_bat_records # <<>> /\ vbms_records # <<>>
    THEN MaxDiffLoop(v_bat_records, vbms_records, 1,
             [a EXCEPT !.current_v_bat = <<Float(Last(v_bat_records).value)>>,
                       !.current_vbms = <<Float(Last(vbms_records).value)>>,
                       !.current_voltage_time = Last(v_bat_records).time])
    ELSE a

\* the exceptions of _analyze_site: a missing key, or float() of a non-number
\* site_info.infos is site_info['data']['data']['infos'], <<>> when a key is missing
AnalyzeRaises(site_info) ==
    \/ site_info.infos = <<>>
    \/ LET data == site_info.infos[1]
           soc == Records(data, "SOC")
           v_bat == Records(data, "V-bat")
           vbms == Records(data, "BMS Voltage")
       IN  \/ RecordsRaise(data, "SOC")
           \/ RecordsRaise(data, "V-bat")
           \/ RecordsRaise(data, "BMS Voltage")
           \/ \E i \in 1..Len(soc) : FloatRaises(soc[i].value)
           \/ /\ v_bat # <<>> /\ vbms # <<>>
              /\ \/ FloatRaises(Last(v_bat).value)
                 \/ FloatRaises(Last(vbms).value)
                 \/ \E i \in 1..Min2(Len(v_bat), Len(vbms)) :
                        FloatRaises(v_bat[i].value) \/ FloatRaises(vbms[i].value)

\* DataAnalyzer._analyze_site, when it does not raise
analyze_site(site_info) ==
    LET data == site_info.infos[1]
    IN  VoltagePart(SocPart(OfflineAnalysis(site_info), Records(data, "SOC")),
                    Records(data, "V-bat"), Records(data, "BMS Voltage"))

\* an analysis that leaves out the sites without SOC records
RECURSIVE AnalyzeLoopSkipOffline(_, _)
AnalyzeLoopSkipOffline(items, analysis_results) ==
    IF items = <<>> THEN analysis_results
    ELSE AnalyzeLoopSkipOffline(Tail(items),
             IF \/ AnalyzeRaises(Head(items).value)
                \/ Records(Head(items).value.infos[1], "SOC") = <<>>
             THEN analysis_results
             ELSE DictSet(analysis_results, Head(items).key,
                          analyze_site(Head(items).value)))

\* an analysis that ends at the first site whose analysis raises
RECURSIVE AnalyzeLoopAbort(_, _)
AnalyzeLoopAbort(items, analysis_results) ==
    IF items = <<>> \/ AnalyzeRaises(Head(items).value) THEN analysis_results
    ELSE AnalyzeLoopAbort(Tail(items),
             DictSet(analysis_results, Head(items).key, analyze_site(Head(items).value)))

\* DataAnalyzer.analyze: a site whose analysis raises is skipped
RECURSIVE AnalyzeLoop(_, _)
AnalyzeLoop(items, analysis_results) ==
    IF items = <<>> THEN analysis_results
    ELSE AnalyzeLoop(Tail(items),
             IF AnalyzeRaises(Head(items).value) THEN analysis_results
             ELSE DictSet(analysis_results, Head(items).key,
                          analyze_site(Head(items).value)))

\* an analysis of the first fetched site only
AnalyzeFirst(fetched_data) == AnalyzeLoop(Take(fetched_data, 1), <<>>)

analyze(fetched_data) == AnalyzeLoop(fetched_data, <<>>)

----------------------------------------------------------------------------
(* src/api/sunsynk.py *)

total_pages == 14

\* config['api']['sunsynk']['max_retries']
max_retries == 3

\* config['api']['sunsynk']['rate_limit']: the permits of SunSynkAPI.rate_limit
\* in one second
rate_limit == 2

\* the permits of DataFetcher.rate_limit in one second: AsyncLimiter(20, 1)
fetcher_rate_limit == 20

\* an outbound request: its kind, the page, site id or serial it names, and the
\* configured site it is made for ("" for the requests of no configured site)
\* the rate limiter whose permit a call holds when it is issued: the token
\* request is made under no limiter, the listing and the roster requests under
\* SunSynkAPI.rate_limit, the telemetry requests under DataFetcher.rate_limit
LimiterOf(kind) ==
    CASE kind = "token" -> "none"
      [] kind \in {"plants", "inverters"} -> "api"
      [] kind \in {"today", "yesterday"} -> "fetcher"

Req(kind, key, site) ==
    [kind |-> kind, key |-> key, site |-> site, limiter |-> LimiterOf(kind), delay |-> 0]

\* await asyncio.sleep(delay) between two attempts for a page
Wait(page, delay) ==
    [kind |-> "sleep", key |-> ToString(page), site |-> "", limiter |-> "none",
     delay |-> delay]

\* a get_token that tries a second time when the first attempt fails
GetTokenRetry(auth) ==
    [token |-> IF auth = "ok" THEN <<"token">> ELSE <<>>,
     log |-> IF auth = "ok" THEN <<Req("token", "", "")>>
             ELSE <<Req("token", "", ""), Req("token", "", "")>>]

\* SunSynkAPI.get_token: one POST, no loop. auth is what the upstream does:
\* "ok", "rejected" (success is false) or "error" (the call raises)
get_token(auth) ==
    [token |-> IF auth = "ok" THEN <<"token">> ELSE <<>>,
     log |-> <<Req("token", "", "")>>]

\* the plants the upstream lists on a page; a plant of the fleet is
\* [name, id, page, inverters], inverters being the infos of its roster
PagePlants(fleet, page) == SelectSeq(fleet, LAMBDA plant : plant.page = page)

\* a retry loop that waits 2 seconds after every failed attempt but the last
RECURSIVE GetPlantsLoopFlatDelay(_, _, _, _, _)
GetPlantsLoopFlatDelay(fleet, page, fails, attempt, log) ==
    IF attempt >= max_retries THEN [response |-> <<>>, log |-> log]
    ELSE IF attempt >= fails
         THEN [response |-> <<PagePlants(fleet, page)>>,
               log |-> Append(log, Req("plants", ToString(page), ""))]
         ELSE GetPlantsLoopFlatDelay(fleet, page, fails, attempt + 1,
                  Append(log, Req("plants", ToString(page), ""))
                  \o (IF attempt < max_retries - 1
                      THEN << Wait(page, 2) >> ELSE <<>>))

\* SunSynkAPI.get_plants from attempt `attempt` on: `fails` is the number of
\* attempts that fail (status other than 200, or an exception) before one gets
\* 200, log the requests and the waits so far
RECURSIVE GetPlantsLoop(_, _, _, _, _)
GetPlantsLoop(fleet, page, fails, attempt, log) ==
    IF attempt >= max_retries THEN [response |-> <<>>, log |-> log]
    ELSE IF attempt >= fails
         THEN [response |-> <<PagePlants(fleet, page)>>,
               log |-> Append(log, Req("plants", ToString(page), ""))]
         ELSE GetPlantsLoop(fleet, page, fails, attempt + 1,
                  Append(log, Req("plants", ToString(page), ""))
                  \o (IF attempt < max_retries - 1
                      THEN << Wait(page, (attempt + 1) * 2) >> ELSE <<>>))

get_plants(fleet, page, fails) == GetPlantsLoop(fleet, page, fails, 0, <<>>)

\* {inverter['sn']: inverter.get('equipMode', None) for inverter in infos}
RECURSIVE RosterDict(_, _)
RosterDict(infos, d) ==
    IF infos = <<>> THEN d
    ELSE RosterDict(Tail(infos), DictSet(d, Head(infos).sn, Head(infos).equipMode))

\* SunSynkAPI.get_site_inverters: outcome "ok", "no_fields" (the response has no
\* data.infos) or "error" (the call raises): a dict, the empty dict, or None
get_site_inverters(plant, outcome) ==
    [inverters |-> CASE outcome = "ok" -> << RosterDict(plant.inverters, <<>>) >>
                     [] outcome = "no_fields" -> << <<>> >>
                     [] outcome = "error" -> <<>>,
     log |-> <<Req("inverters", Str(plant.id), "")>>]

\* plants_info_list = await asyncio.gather(*plant_tasks): one result per page, in
\* page order. The requests of the 14 tasks are logged page by page.
RECURSIVE GatherPlants(_, _, _, _)
GatherPlants(fleet, page_fails, page, acc) ==
    IF page > total_pages THEN acc
    ELSE GatherPlants(fleet, page_fails, page + 1,
             [responses |-> Append(acc.responses,
                                   get_plants(fleet, page, page_fails[page]).response),
              log |-> acc.log \o get_plants(fleet, page, page_fails[page]).log])

\* a merge that stops at the first page without a result
RECURSIVE PlantsUntilNone(_)
PlantsUntilNone(responses) ==
    IF responses = <<>> \/ Head(responses) = <<>> THEN <<>>
    ELSE Head(responses)[1] \o PlantsUntilNone(Tail(responses))

\* the plants of the pages that returned a result, in page order
RECURSIVE PlantsOf(_)
PlantsOf(responses) ==
    IF responses = <<>> THEN <<>>
    ELSE (IF Head(responses) = <<>> THEN <<>> ELSE Head(responses)[1])
         \o PlantsOf(Tail(responses))

\* a loop that adds no entry for a plant whose roster call returns None
RECURSIVE SitesLoopSkipFailed(_, _, _)
SitesLoopSkipFailed(plants, roster_out, acc) ==
    IF plants = <<>> THEN acc
    ELSE LET plant == Head(plants)
             got == get_site_inverters(plant, roster_out[plant.id])
         IN  SitesLoopSkipFailed(Tail(plants), roster_out,
                 [all_sites_data |->
                      IF got.inverters = <<>> THEN acc.all_sites_data
                      ELSE DictSet(acc.all_sites_data, plant.name,
                                   [id |-> plant.id, inverters |-> got.inverters]),
                  log |-> acc.log \o got.log])

\* the loop of get_all_sites over the plants: one roster request for each
RECURSIVE SitesLoop(_, _, _)
SitesLoop(plants, roster_out, acc) ==
    IF plants = <<>> THEN acc
    ELSE LET plant == Head(plants)
             got == get_site_inverters(plant, roster_out[plant.id])
         IN  SitesLoop(Tail(plants), roster_out,
                 [all_sites_data |->
                      DictSet(acc.all_sites_data, plant.name,
                              [id |-> plant.id,
                               inverters |-> IF got.inverters # <<>> THEN got.inverters
                                             ELSE << <<>> >>]),
                  log |-> acc.log \o got.log])

\* SunSynkAPI.get_all_sites. A listing is "malformed" when the first plant that
\* a page returns has no 'name': plant['name'] raises before any roster request.
get_all_sites(fleet, page_fails, roster_out, listing) ==
    LET gathered == GatherPlants(fleet, page_fails, 1, [responses |-> <<>>, log |-> <<>>])
        plants == PlantsOf(gathered.responses)
    IN  IF listing = "malformed" /\ plants # <<>>
        THEN [all_sites_data |-> <<>>, log |-> gathered.log, raises |-> TRUE]
        ELSE LET got == SitesLoop(plants, roster_out,
                                  [all_sites_data |-> <<>>, log |-> gathered.log])
             IN  [all_sites_data |-> got.all_sites_data, log |-> got.log,
                  raises |-> FALSE]

----------------------------------------------------------------------------
(* src/core/fetcher.py *)

\* json.dump of the snapshot: an object per dict with its members in insertion
\* order, None as null, an int as a number, a str as a string
JsonOptStr(x) == IF x = NONE THEN [j |-> "null", s |-> ""] ELSE [j |-> "string", s |-> x]
JsonId(x) == IF x.t = "int" THEN [j |-> "number", s |-> x.v] ELSE [j |-> "string", s |-> x.v]

JsonRoster(inverters) ==
    [i \in 1..Len(inverters) |->
        [name |-> inverters[i].key, value |-> JsonOptStr(inverters[i].value)]]

JsonDump(all_sites_data) ==
    [i \in 1..Len(all_sites_data) |->
        [name |-> all_sites_data[i].key,
         value |-> [id |-> JsonId(all_sites_data[i].value.id),
                    inverters |-> IF all_sites_data[i].value.inverters = <<>> THEN <<>>
                                  ELSE << JsonRoster(all_sites_data[i].value.inverters[1]) >>]]]

\* json.load: an object becomes a dict (a repeated name keeps the last value)
LoadOptStr(v) == IF v.j = "null" THEN NONE ELSE v.s
LoadId(v) == IF v.j = "number" THEN IntId(v.s) ELSE StrId(v.s)

RECURSIVE LoadRoster(_, _)
LoadRoster(members, d) ==
    IF members = <<>> THEN d
    ELSE LoadRoster(Tail(members), DictSet(d, Head(members).name, LoadOptStr(Head(members).value)))

RECURSIVE LoadSites(_, _)
LoadSites(members, d) ==
    IF members = <<>> THEN d
    ELSE LoadSites(Tail(members),
             DictSet(d, Head(members).name,
                     [id |-> LoadId(Head(members).value.id),
                      inverters |-> IF Head(members).value.inverters = <<>> THEN <<>>
                                    ELSE << LoadRoster(Head(members).value.inverters[1], <<>>) >>]))

JsonLoad(document) == LoadSites(document, <<>>)

\* json.load raises on a document that ends before it is complete (a store that
\* was cut off): such a document ends in a member whose value is cut off
JsonLoadRaises(document) ==
    \E i \in 1..Len(document) : document[i].value.id.j = "eof"

\* datetime.now().isoformat() and datetime.fromisoformat(text).date()
IsoFormat(day) == [iso |-> TRUE, date |-> day]
FromIsoRaises(text) == ~text.iso
FromIsoDate(text) == text.date

\* a load that does not compare the date of the marker with the day
LoadCachedValidatorAnyDay(marker, cache, day) ==
    IF marker # <<>> /\ ~FromIsoRaises(marker[1]) /\ cache # <<>>
    THEN << JsonLoad(cache[1]) >>
    ELSE <<>>

\* a load that also accepts the marker of an earlier day
LoadCachedValidatorEarlier(marker, cache, day) ==
    IF marker # <<>> /\ ~FromIsoRaises(marker[1]) /\ FromIsoDate(marker[1]) <= day
       /\ cache # <<>> /\ ~JsonLoadRaises(cache[1])
    THEN << JsonLoad(cache[1]) >>
    ELSE <<>>

\* a load that takes the members that a cut-off document still has
LoadCachedValidatorPrefix(marker, cache, day) ==
    IF marker # <<>> /\ ~FromIsoRaises(marker[1]) /\ FromIsoDate(marker[1]) = day
       /\ cache # <<>>
    THEN << JsonLoad(SelectSeq(cache[1], LAMBDA m : m.value.id.j # "eof")) >>
    ELSE <<>>

\* DataFetcher._load_cached_validator: the validator after it; every exception
\* (of fromisoformat, of json.load) is caught and leaves no validator
load_cached_validator(marker, cache, day) ==
    IF marker # <<>> /\ ~FromIsoRaises(marker[1]) /\ FromIsoDate(marker[1]) = day
       /\ cache # <<>> /\ ~JsonLoadRaises(cache[1])
    THEN << JsonLoad(cache[1]) >>
    ELSE <<>>

\* DataFetcher.fetch_all_sites: {} when no token or no site; an exception of
\* get_all_sites is not caught here
fetch_all_sites(fleet, d) ==
    LET t == get_token(d.auth)
    IN  IF t.token = <<>> THEN [all_sites |-> <<>>, log |-> t.log, raises |-> FALSE]
        ELSE LET got == get_all_sites(fleet, d.page_fails, d.roster_out, d.listing)
             IN  [all_sites |-> got.all_sites_data, log |-> t.log \o got.log,
                  raises |-> got.raises]

\* max(float(record['value']) for record in soc_records)
RECURSIVE MaxFloat(_)
MaxFloat(records) ==
    IF Len(records) = 1 THEN Float(records[1].value)
    ELSE LET m == MaxFloat(Tail(records))
         IN  IF Float(records[1].value) >= m THEN Float(records[1].value) ELSE m

\* DataFetcher._fetch_yesterday_data: response is <<>> (not 200, or the call
\* raises) or <<the SOC records>>; every exception ends in None
fetch_yesterday_data(sn, site_name, response) ==
    [value |-> IF response = <<>> \/ response[1] = <<>> THEN <<>>
               ELSE IF \E i \in 1..Len(response[1]) : FloatRaises(response[1][i].value)
                    THEN <<>>
                    ELSE << MaxFloat(response[1]) >>,
     log |-> <<Req("yesterday", sn, site_name)>>]

\* DataFetcher._fetch_inverter_data: out.today is "ok" (status 200 and a JSON
\* body), "status" (another status) or "error" (the call raises)
fetch_inverter_data(validation, site_name, out) ==
    LET sn == validation.inverter_sn
    IN  IF out.today = "ok"
        THEN LET y == fetch_yesterday_data(sn, site_name, out.yesterday)
             IN  [data |-> << [site_id |-> validation.site_id,
                               inverter_sn |-> sn,
                               inverter_type |-> validation.inverter_type,
                               infos |-> out.infos,
                               yesterday_max_soc |-> y.value] >>,
                  log |-> <<Req("today", sn, site_name)>> \o y.log]
        ELSE [data |-> <<>>, log |-> <<Req("today", sn, site_name)>>]

\* a fetch loop that gives up at the first site whose today request fails
RECURSIVE FetchLoopAbort(_, _, _)
FetchLoopAbort(items, site_out, acc) ==
    IF items = <<>> THEN acc
    ELSE LET site_name == Head(items).key
             validation == Head(items).value
         IN  IF validation.status = "valid"
             THEN LET got == fetch_inverter_data(validation, site_name, site_out[site_name])
                  IN  IF got.data = <<>>
                      THEN [results |-> acc.results, log |-> acc.log \o got.log]
                      ELSE FetchLoopAbort(Tail(items), site_out,
                               [results |-> DictSet(acc.results, site_name, got.data[1]),
                                log |-> acc.log \o got.log])
             ELSE FetchLoopAbort(Tail(items), site_out, acc)

\* the loop of fetch_data over validated_sites.items()
RECURSIVE FetchLoop(_, _, _)
FetchLoop(items, site_out, acc) ==
    IF items = <<>> THEN acc
    ELSE LET site_name == Head(items).key
             validation == Head(items).value
         IN  IF validation.status = "valid"
             THEN LET got == fetch_inverter_data(validation, site_name, site_out[site_name])
                  IN  FetchLoop(Tail(items), site_out,
                          [results |-> IF got.data # <<>>
                                       THEN DictSet(acc.results, site_name, got.data[1])
                                       ELSE acc.results,
                           log |-> acc.log \o got.log])
             ELSE FetchLoop(Tail(items), site_out, acc)

\* a fetch_data that goes on with the empty snapshot of its discovery
FetchDataKeepsEmpty(sla_sites, the_validator, found, c) ==
    LET need == the_validator = <<>>
        log0 == IF need THEN found.log ELSE <<>>
    IN  IF need /\ found.raises
        THEN [results |-> <<>>, log |-> log0, validator |-> <<>>, save |-> <<>>,
              raises |-> found.raises]
        ELSE LET v == IF need THEN << found.all_sites >> ELSE the_validator
                 save == IF need THEN << found.all_sites >> ELSE <<>>
                 t == get_token(c.auth)
             IN  IF t.token = <<>>
                 THEN [results |-> <<>>, log |-> log0 \o t.log,
                       validator |-> v, save |-> save, raises |-> FALSE]
                 ELSE LET r == FetchLoop(validate_sites(sla_sites, v[1]), c.site_out,
                                         [results |-> <<>>, log |-> log0 \o t.log])
                      IN  [results |-> r.results, log |-> r.log,
                           validator |-> v, save |-> save, raises |-> FALSE]

\* a fetch_data that stores the snapshot of its validator in every cycle
FetchDataStoresAlways(sla_sites, the_validator, found, c) ==
    LET need == the_validator = <<>>
        log0 == IF need THEN found.log ELSE <<>>
    IN  IF need /\ (found.raises \/ found.all_sites = <<>>)
        THEN [results |-> <<>>, log |-> log0, validator |-> <<>>, save |-> <<>>,
              raises |-> found.raises]
        ELSE LET v == IF need THEN << found.all_sites >> ELSE the_validator
                 t == get_token(c.auth)
             IN  IF t.token = <<>>
                 THEN [results |-> <<>>, log |-> log0 \o t.log,
                       validator |-> v, save |-> v, raises |-> FALSE]
                 ELSE LET r == FetchLoop(validate_sites(sla_sites, v[1]), c.site_out,
                                         [results |-> <<>>, log |-> log0 \o t.log])
                      IN  [results |-> r.results, log |-> r.log,
                           validator |-> v, save |-> v, raises |-> FALSE]

\* DataFetcher.fetch_data: the returned mapping, the requests, the validator
\* after it and the snapshot saved to the cache (<<>> when nothing is saved).
\* found is what fetch_all_sites returns if it is called, c what the upstream
\* does to the cycle; raises when fetch_all_sites does.
fetch_data(sla_sites, the_validator, found, c) ==
    LET need == the_validator = <<>>
        log0 == IF need THEN found.log ELSE <<>>
    IN  IF need /\ (found.raises \/ found.all_sites = <<>>)
        THEN [results |-> <<>>, log |-> log0, validator |-> <<>>, save |-> <<>>,
              raises |-> found.raises]
        ELSE LET v == IF need THEN << found.all_sites >> ELSE the_validator
                 save == IF need THEN << found.all_sites >> ELSE <<>>
                 t == get_token(c.auth)
             IN  IF t.token = <<>>
                 THEN [results |-> <<>>, log |-> log0 \o t.log,
                       validator |-> v, save |-> save, raises |-> FALSE]
                 ELSE LET r == FetchLoop(validate_sites(sla_sites, v[1]), c.site_out,
                                         [results |-> <<>>, log |-> log0 \o t.log])
                      IN  [results |-> r.results, log |-> r.log,
                           validator |-> v, save |-> save, raises |-> FALSE]

----------------------------------------------------------------------------
(* The inputs: configurations, fleets, and what the upstream answers *)

MaxPlants == 2          \* plants of a fleet
MaxRoster == 2          \* inverters of a plant
MaxDay == 2             \* calendar days of a run
MaxFailedPages == 1     \* listing pages that fail at least once in a discovery
MaxFailedRosters == 1   \* roster calls that do not return a roster in a discovery

PlantName(i) == CASE i = 1 -> "A" [] i = 2 -> "B" [] i = 3 -> "C" [] OTHER -> "D"
PlantId(i) == IntId(ToString(i))
SnOf(i, j) == "S" \o ToString(i) \o ToString(j)

\* the rosters of plant i: up to n inverters, their equipMode drawn from types
RostersOf(i, n, types) ==
    UNION { { [j \in 1..k |-> [sn |-> SnOf(i, j), equipMode |-> ty[j]]] :
              ty \in [1..k -> types] } : k \in 0..n }

\* the fleets of n plants, plant i on one of `pages` with one of rosters(i)
Fleet(n, pg, rs) ==
    [i \in 1..n |-> [name |-> PlantName(i), id |-> PlantId(i),
                     page |-> pg[i], inverters |-> rs[i]]]

FleetIds(fleet) == {fleet[i].id : i \in 1..Len(fleet)}

\* the fleets of the service runs: plant A on page 1, plant B on page 1 or 2;
\* a roster has inverters of another type only, or a last one that is unset
\* (the roster of plant A)
ServiceRosters(i) ==
    { [j \in 1..(MaxRoster - 1) |-> [sn |-> SnOf(i, j), equipMode |-> "X"]],
      [j \in 1..MaxRoster |-> [sn |-> SnOf(i, j),
                               equipMode |-> IF j < MaxRoster THEN "X" ELSE NONE]] }

ServiceFleets ==
    { Fleet(2, pg, <<r1, r2>>) :
        pg \in { <<1, 1>>, <<1, 2>> },
        r1 \in { r \in ServiceRosters(1) : Len(r) = MaxRoster },
        r2 \in ServiceRosters(2) }

\* the configurations of the service runs: site A and site B, in either order, B
\* with the id of plant 2 (as an int or as a str) or with an id of no plant
Site(name, site_id) == [name |-> name, site_id |-> site_id]

ServiceConfigs ==
    { << Site("A", PlantId(1)), Site("B", PlantId(2)) >>,
      << Site("A", PlantId(1)), Site("B", StrId("2")) >>,
      << Site("B", IntId("9")), Site("A", PlantId(1)) >> }

SmallSubsets(S, n) == {F \in SUBSET S : Cardinality(F) <= n}

\* what the upstream does to a discovery: the listing pages that fail are among
\* `pages`, each failing on its first k attempts, k one of `counts`
PageFailsOn(pages, counts) ==
    UNION { { [p \in 1..total_pages |-> IF p \in F THEN k[p] ELSE 0] :
              k \in [F -> counts] } :
            F \in SmallSubsets(pages, MaxFailedPages) }

\* in the service runs the pages that fail are among the two that list plants,
\* and fail once or on every attempt; in the discovery runs also the last page,
\* which like the pages 3 to 13 lists none, and any number of attempts fail
ServiceFaultPages == {1, 2}
ServiceFaultCounts == {1, max_retries}
DiscoveryFaultPages == {1, 2, total_pages}
DiscoveryFaultCounts == 1..max_retries

RosterOuts(fleet) ==
    UNION { { [id \in FleetIds(fleet) |-> IF id \in F THEN k[id] ELSE "ok"] :
              k \in [F -> {"no_fields", "error"}] } :
            F \in SmallSubsets(FleetIds(fleet), MaxFailedRosters) }

NoDiscovery(fleet) ==
    [auth |-> "unused", page_fails |-> [p \in 1..total_pages |-> 0],
     roster_out |-> [id \in FleetIds(fleet) |-> "ok"], listing |-> "ok"]

\* the authentication fails, or some pages and some roster calls fail
DiscoveryEnvsOn(fleet, pages, counts) ==
    { [NoDiscovery(fleet) EXCEPT !.auth = a] : a \in {"rejected", "error"} }
    \cup { [auth |-> "ok", page_fails |-> pf, roster_out |-> ro, listing |-> "ok"] :
           pf \in PageFailsOn(pages, counts), ro \in RosterOuts(fleet) }

DiscoveryEnvs(fleet) == DiscoveryEnvsOn(fleet, ServiceFaultPages, ServiceFaultCounts)

\* a page returns a plant without a name
MalformedListing(fleet) == [NoDiscovery(fleet) EXCEPT !.auth = "ok", !.listing = "malformed"]

\* telemetry records
Rec(value, time) == [value |-> value, time |-> time]
Time(i) == CASE i = 1 -> "2024-05-01 09:00:00"
             [] i = 2 -> "2024-05-01 09:05:00"
             [] i = 3 -> "2024-05-01 09:10:00"
             [] i = 4 -> "2024-05-01 09:15:00"
             [] OTHER -> "2024-05-01 09:20:00"

Info(label, records) == [label |-> label, records |-> <<records>>]

InfosNormal ==
    << Info("SOC", << Rec("10", Time(1)), Rec("5", Time(2)), Rec("5.0", Time(3)) >>),
       Info("V-bat", << Rec("52.1", Time(1)), Rec("52.3", Time(2)), Rec("51.9", Time(3)) >>),
       Info("BMS Voltage", << Rec("52.1", Time(1)), Rec("51.9", Time(2)) >>) >>

InfosOffline == << Info("SOC", <<>>), Info("V-bat", <<>>), Info("BMS Voltage", <<>>) >>

YesterdayRecords == << Rec("7", Time(1)), Rec("10", Time(2)) >>

\* what the upstream does to the telemetry requests of one site
SiteOut(t, infos, yesterday) == [today |-> t, infos |-> infos, yesterday |-> yesterday]

SiteOutcomes ==
    { SiteOut("status", <<>>, <<>>),
      SiteOut("error", <<>>, <<>>),
      SiteOut("ok", <<InfosNormal>>, <<YesterdayRecords>>),
      SiteOut("ok", <<InfosNormal>>, <<>>),
      SiteOut("ok", <<InfosOffline>>, << <<>> >>),
      SiteOut("ok", <<>>, <<YesterdayRecords>>) }

ValidNames(validated) ==
    {validated[i].key : i \in {k \in 1..Len(validated) : validated[k].value.status = "valid"}}

NoCycle == [auth |-> "unused", site_out |-> <<>>, disk |-> "ok", sink |-> "ok"]

\* what the upstream does to a cycle that fetches the sites `names`; disk is
\* what open() and json.dump do in save_data, sink what the sheet service does
\* in publish: "ok" or "error" (the call raises)
CycleEnvsOn(names, faults) ==
    { [auth |-> a, site_out |-> [n \in names |-> SiteOut("status", <<>>, <<>>)],
       disk |-> "ok", sink |-> "ok"] :
        a \in {"rejected", "error"} }
    \cup { [auth |-> "ok", site_out |-> so, disk |-> dk, sink |-> sk] :
           so \in [names -> faults.outcomes], dk \in faults.disks, sk \in faults.sinks }

\* in the service runs the telemetry fails in any way and the disk and the
\* sheet service work
ServiceFaults == [outcomes |-> SiteOutcomes, disks |-> {"ok"}, sinks |-> {"ok"}]

CycleEnvs(names) == CycleEnvsOn(names, ServiceFaults)

----------------------------------------------------------------------------
(* src/services/monitoring.py: the service *)

NoEnv == [d |-> NoDiscovery(upstream), c |-> NoCycle]

\* no clock is read: the loop runs at any time of the day
ClockUnused ==
    /\ now = 0
    /\ data_fetch_interval = 0
    /\ daily = [cleanup |-> 0, refresh |-> 0]

Init ==
    /\ sites_config \in ServiceConfigs
    /\ upstream \in ServiceFleets
    /\ today = 1
    /\ validator = <<>>
    /\ cache_file = <<>>
    /\ last_refresh_file = <<>>
    /\ validated_sites = <<>>
    /\ pc = "down"
    /\ env = NoEnv
    /\ requests = <<>>
    /\ fetched = <<>>
    /\ analysis = <<>>
    /\ published = <<>>
    /\ stored = <<>>
    /\ discovered = <<>>
    /\ events = <<>>
    /\ tasks = <<>>
    /\ ClockUnused

\* MonitoringService.__init__: DataFetcher.__init__ loads the cached validator
Construct ==
    /\ pc = "down"
    /\ validator' = load_cached_validator(last_refresh_file, cache_file, today)
    /\ validated_sites' = <<>>
    /\ pc' = "constructed"
    /\ UNCHANGED <<sites_config, upstream, today, cache_file, last_refresh_file,
                   env, requests, fetched, analysis, published, stored, discovered>>
    /\ UNCHANGED <<events, tasks, clock_vars>>

\* the body of MonitoringService._refresh_site_data when the upstream does d to
\* the discovery: an exception of fetch_all_sites ends it before any assignment
Refresh(d) ==
    \E found \in {fetch_all_sites(upstream, d)} :
        /\ IF found.raises
           THEN /\ UNCHANGED <<validator, cache_file, last_refresh_file, stored,
                               validated_sites>>
                /\ discovered' = <<>>
                /\ events' = events \o <<"discovery", "refresh_error">>
           ELSE /\ validator' = << found.all_sites >>
                /\ cache_file' = << JsonDump(found.all_sites) >>
                /\ last_refresh_file' = << IsoFormat(today) >>
                /\ stored' = << found.all_sites >>
                /\ validated_sites' = validate_sites(sites_config, found.all_sites)
                /\ discovered' = << found.all_sites >>
                /\ events' = events \o <<"discovery", "rebuild", "cache_store",
                                         "validate", "save_sites">>
        /\ requests' = found.log
        /\ env' = [d |-> d, c |-> NoCycle]

\* MonitoringService._refresh_site_data
RefreshSiteData ==
    /\ pc \in {"constructed", "loop_top"}
    /\ \E d \in DiscoveryEnvs(upstream) : Refresh(d)
    /\ pc' = "refreshed"
    /\ UNCHANGED <<sites_config, upstream, today, fetched, analysis, published>>
    /\ UNCHANGED <<tasks, clock_vars>>

\* steps that analyze before the raw snapshot is written
ProcessStepsAnalyzeFirst(c) ==
    <<"fetch", "analyze", "save_raw", "save_analysis", "publish">>

\* the steps of _fetch_and_process_data after a fetch that returned data
ProcessSteps(c) ==
    <<"fetch", "save_raw">> \o (IF c.disk = "error" THEN <<"save_error">> ELSE <<>>)
    \o <<"analyze", "save_analysis">>
    \o (IF c.disk = "error" THEN <<"save_error">> ELSE <<>>)
    \o <<"publish">> \o (IF c.sink = "error" THEN <<"publish_error">> ELSE <<>>)

\* the body of MonitoringService._fetch_and_process_data; the upstream does one
\* of denvs to a discovery and one of `faults` to the requests of the cycle
Cycle(denvs, faults) ==
    \E d \in (IF validator = <<>> THEN denvs ELSE {NoDiscovery(upstream)}) :
        \E found \in {fetch_all_sites(upstream, d)} :
        LET v == IF validator # <<>> THEN validator[1] ELSE found.all_sites
        IN  \E c \in (IF validator = <<>> /\ (found.raises \/ found.all_sites = <<>>)
                      THEN {NoCycle}
                      ELSE CycleEnvsOn(ValidNames(validate_sites(sites_config, v)),
                                       faults)) :
              \E got \in {fetch_data(sites_config, validator, found, c)} :
              LET current_data == got.results
              IN  /\ validator' = got.validator
                  /\ IF got.save # <<>>
                     THEN /\ cache_file' = << JsonDump(got.save[1]) >>
                          /\ last_refresh_file' = << IsoFormat(today) >>
                          /\ stored' = got.save
                     ELSE UNCHANGED <<cache_file, last_refresh_file, stored>>
                  /\ requests' = got.log
                  /\ discovered' = (IF validator = <<>> /\ ~found.raises
                                    THEN << found.all_sites >> ELSE <<>>)
                  /\ env' = [d |-> d, c |-> c]
                  /\ fetched' = current_data
                  /\ IF got.raises
                     THEN /\ analysis' = <<>>
                          /\ published' = <<>>
                          /\ events' = events \o <<"fetch", "cycle_error">>
                     ELSE IF current_data = <<>>
                     THEN /\ analysis' = <<>>
                          /\ published' = <<>>
                          /\ events' = events \o <<"fetch", "no_data">>
                     ELSE \E analysis_results \in {analyze(current_data)} :
                              /\ analysis' = analysis_results
                              /\ published' = << analysis_results >>
                              /\ events' = events \o ProcessSteps(c)

\* MonitoringService._fetch_and_process_data
FetchAndProcess ==
    /\ pc \in {"constructed", "loop_top", "refreshed"}
    /\ Cycle(DiscoveryEnvs(upstream), ServiceFaults)
    /\ pc' = "sleeping"
    /\ UNCHANGED <<sites_config, upstream, today, validated_sites>>
    /\ UNCHANGED <<tasks, clock_vars>>

\* await asyncio.sleep(self.data_fetch_interval): midnight may pass
Sleep ==
    /\ pc = "sleeping"
    /\ pc' = "loop_top"
    /\ \E day \in {today, today + 1} : day <= MaxDay /\ today' = day
    /\ env' = NoEnv
    /\ requests' = <<>>
    /\ fetched' = <<>>
    /\ analysis' = <<>>
    /\ published' = <<>>
    /\ discovered' = <<>>
    /\ events' = <<>>
    /\ UNCHANGED <<sites_config, upstream, validator, cache_file, last_refresh_file,
                   validated_sites, stored>>
    /\ UNCHANGED <<tasks, clock_vars>>

\* the process is stopped, and started again later; the files stay
Restart ==
    /\ pc # "down"
    /\ pc' = "down"
    /\ \E day \in {today, today + 1} : day <= MaxDay /\ today' = day
    /\ validator' = <<>>
    /\ validated_sites' = <<>>
    /\ env' = NoEnv
    /\ requests' = <<>>
    /\ fetched' = <<>>
    /\ analysis' = <<>>
    /\ published' = <<>>
    /\ discovered' = <<>>
    /\ events' = <<>>
    /\ UNCHANGED <<sites_config, upstream, cache_file, last_refresh_file, stored>>
    /\ UNCHANGED <<tasks, clock_vars>>

Next == Construct \/ RefreshSiteData \/ FetchAndProcess \/ Sleep \/ Restart

Spec == Init /\ [][Next]_vars

----------------------------------------------------------------------------
(* MonitoringService.run with the wall clock *)

MaxMinutes == 63        \* minutes of the day that the clock is followed for

HMS(h, m, s) == h * 3600 + m * 60 + s
Hour(t) == t \div 3600
Minute(t) == (t % 3600) \div 60

\* the clock is followed from 03:59:30 on; every later time of the day stands
\* for MaxClock, a time at which no daily action is due
FirstClock == HMS(3, 59, 30)
MaxClock == HMS(3, 59, 0) + 60 * MaxMinutes
Later(t, seconds) == Min2(t + seconds, MaxClock)

\* config['monitoring']['fetch_interval'], and how long a cycle takes
FetchIntervals == {30, 300}
CycleDurations == {0, 30}

site_refresh_time == [hour |-> 5, minute |-> 0]

\* a check of the hour alone
ShouldRefreshAnyMinute(t) == Hour(t) = site_refresh_time.hour

\* MonitoringService._should_refresh_sites at the time t
should_refresh_sites(t) ==
    Hour(t) = site_refresh_time.hour /\ Minute(t) = site_refresh_time.minute

\* one configuration and one fleet: site A is valid, site B has no eligible inverter
LoopConfig == << Site("A", PlantId(1)), Site("B", PlantId(2)) >>
LoopFleet ==
    Fleet(2, <<1, 2>>,
          << [j \in 1..2 |-> [sn |-> SnOf(1, j), equipMode |-> IF j = 1 THEN "X" ELSE "M"]],
             << [sn |-> SnOf(2, 1), equipMode |-> "X"] >> >>)

\* a discovery succeeds, or its authentication is rejected, or its listing is
\* malformed
LoopDiscoveryEnvs ==
    { [NoDiscovery(LoopFleet) EXCEPT !.auth = "ok"],
      [NoDiscovery(LoopFleet) EXCEPT !.auth = "rejected"],
      MalformedListing(LoopFleet) }

\* the today request of a site succeeds or raises, or the bundle has no infos
\* and its analysis fails; the disk and the sheet service work or raise
LoopFaults ==
    [outcomes |-> { SiteOut("ok", <<InfosNormal>>, <<YesterdayRecords>>),
                    SiteOut("error", <<>>, <<>>),
                    SiteOut("ok", <<>>, <<YesterdayRecords>>) },
     disks |-> {"ok", "error"}, sinks |-> {"ok", "error"}]

InitLoop ==
    /\ sites_config = LoopConfig
    /\ upstream = LoopFleet
    /\ today = 1
    /\ validator = <<>>
    /\ cache_file = <<>>
    /\ last_refresh_file = <<>>
    /\ validated_sites = <<>>
    /\ pc = "loop_top"
    /\ env = NoEnv
    /\ requests = <<>>
    /\ fetched = <<>>
    /\ analysis = <<>>
    /\ published = <<>>
    /\ stored = <<>>
    /\ discovered = <<>>
    /\ events = <<>>
    /\ tasks = <<>>
    /\ now = FirstClock
    /\ data_fetch_interval \in FetchIntervals
    /\ daily = [cleanup |-> 0, refresh |-> 0]

\* run, lines 89-91: the clock is read, and at 04:00 cleanup_old_data is
\* called. It has no handler of its own around os.listdir and os.path.getmtime:
\* when one of them raises, the handler of the loop is next. The cache files
\* of this day are younger than every retention period and stay.
LoopCleanup ==
    /\ pc = "loop_top"
    /\ IF Hour(now) = 4 /\ Minute(now) = 0
       THEN /\ daily' = [daily EXCEPT !.cleanup = @ + 1]
            /\ \E outcome \in {"ok", "raises"} :
                IF outcome = "ok"
                THEN events' = <<"cleanup">> /\ pc' = "check_refresh"
                ELSE events' = <<"cleanup", "loop_error">> /\ pc' = "backoff"
       ELSE /\ events' = <<>>
            /\ pc' = "check_refresh"
            /\ UNCHANGED daily
    /\ UNCHANGED <<sites_config, upstream, today, validator, cache_file,
                   last_refresh_file, validated_sites, env, requests, fetched,
                   analysis, published, stored, discovered, tasks, now,
                   data_fetch_interval>>

\* run, lines 94-95
LoopRefresh ==
    /\ pc = "check_refresh"
    /\ IF should_refresh_sites(now)
       THEN /\ \E d \in LoopDiscoveryEnvs : Refresh(d)
            /\ daily' = [daily EXCEPT !.refresh = @ + 1]
       ELSE UNCHANGED <<validator, cache_file, last_refresh_file, stored,
                        validated_sites, discovered, events, requests, env, daily>>
    /\ pc' = "cycle"
    /\ UNCHANGED <<sites_config, upstream, today, fetched, analysis, published,
                   tasks, now, data_fetch_interval>>

\* run, line 98: the cycle takes some time
LoopCycle ==
    /\ pc = "cycle"
    /\ Cycle(LoopDiscoveryEnvs, LoopFaults)
    /\ \E seconds \in CycleDurations : now' = Later(now, seconds)
    /\ pc' = "sleeping"
    /\ UNCHANGED <<sites_config, upstream, today, validated_sites, tasks,
                   data_fetch_interval, daily>>

\* what the next iteration starts with
NextIteration ==
    /\ pc' = "loop_top"
    /\ env' = NoEnv
    /\ requests' = <<>>
    /\ fetched' = <<>>
    /\ analysis' = <<>>
    /\ published' = <<>>
    /\ discovered' = <<>>
    /\ UNCHANGED <<sites_config, upstream, today, validator, cache_file,
                   last_refresh_file, validated_sites, stored, events, tasks,
                   data_fetch_interval, daily>>

\* run, line 101: await asyncio.sleep(self.data_fetch_interval)
LoopSleep ==
    /\ pc = "sleeping"
    /\ now' = Later(now, data_fetch_interval)
    /\ NextIteration

\* a handler of the loop that logs the error and ends run
LoopBackoffReturn ==
    /\ pc = "backoff"
    /\ pc' = "returned"
    /\ UNCHANGED <<sites_config, upstream, today, validator, cache_file,
                   last_refresh_file, validated_sites, env, requests, fetched,
                   analysis, published, stored, discovered, events, tasks,
                   clock_vars>>

\* a handler of the loop that waits the fetch interval
LoopBackoffInterval ==
    /\ pc = "backoff"
    /\ now' = Later(now, data_fetch_interval)
    /\ NextIteration

\* run, lines 103-105: the handler of the loop, await asyncio.sleep(60)
LoopBackoff ==
    /\ pc = "backoff"
    /\ now' = Later(now, 60)
    /\ NextIteration

NextLoop == LoopCleanup \/ LoopRefresh \/ LoopCycle \/ LoopSleep \/ LoopBackoff

SpecLoop == InitLoop /\ [][NextLoop]_vars

\* the control flow of run: each action of NextLoop is enabled wherever pc is at
\* its point of the loop and moves pc on, so the steps of NextLoop are the
\* steps that move pc along these edges
RunStep ==
    \/ pc = "loop_top" /\ pc' \in {"check_refresh", "backoff"}
    \/ pc = "check_refresh" /\ pc' = "cycle"
    \/ pc = "cycle" /\ pc' = "sleeping"
    \/ pc \in {"sleeping", "backoff"} /\ pc' = "loop_top"

\* the event loop runs the coroutine on: every call of a step returns or raises
\* (each request has a timeout) and every sleep ends
SpecLoopFair == SpecLoop /\ WF_pc(RunStep)

----------------------------------------------------------------------------
(* validate_sites on any configuration and any snapshot *)

MaxConfigSites == 2     \* sites of a configuration

AllTypes == {"M", "M1", "X", NONE}
ConfigIds == {IntId("1"), StrId("2"), IntId("9")}
SnapshotIds == {IntId("1"), IntId("2")}

\* the configurations of up to n sites
ValidateConfigs(n) ==
    UNION { { [i \in 1..k |-> Site(PlantName(i), ids[i])] : ids \in [1..k -> ConfigIds] } :
            k \in 0..n }

\* the 'inverters' of a snapshot entry: the key missing, or any roster
AnyInverters(i) ==
    { <<>> } \cup { << RosterDict(r, <<>>) >> : r \in RostersOf(i, MaxRoster, AllTypes) }
OneInverter(i, t) == << <<[key |-> SnOf(i, 1), value |-> t]>> >>

\* the snapshots of n sites, any roster for the last site and one inverter, of
\* one type, for each of the others; two sites may have the same id
SnapshotsOf(n) ==
    { [i \in 1..n |-> [key |-> PlantName(i),
                       value |-> [id |-> ids[i],
                                  inverters |-> IF i = n THEN last
                                                ELSE OneInverter(i, one)]]] :
        ids \in [1..n -> SnapshotIds],
        one \in {"M", "X"},
        last \in AnyInverters(n) }

ValidateSnapshots(n) == UNION { SnapshotsOf(k) : k \in 0..n }

InitValidate ==
    /\ sites_config \in ValidateConfigs(MaxConfigSites)
    /\ validator \in { <<snapshot>> : snapshot \in ValidateSnapshots(MaxPlants) }
    /\ upstream = <<>>
    /\ today = 1
    /\ cache_file = <<>>
    /\ last_refresh_file = <<>>
    /\ validated_sites = <<>>
    /\ pc = "validate"
    /\ env = NoEnv
    /\ requests = <<>>
    /\ fetched = <<>>
    /\ analysis = <<>>
    /\ published = <<>>
    /\ stored = <<>>
    /\ discovered = <<>>
    /\ events = <<>>
    /\ tasks = <<>>
    /\ ClockUnused

Validate ==
    /\ pc = "validate"
    /\ validated_sites' = validate_sites(sites_config, validator[1])
    /\ pc' = "validated"
    /\ UNCHANGED <<sites_config, upstream, today, validator, cache_file,
                   last_refresh_file, env, requests, fetched, analysis, published,
                   stored, discovered>>
    /\ UNCHANGED <<events, tasks, clock_vars>>

NextValidate == Validate

SpecValidate == InitValidate /\ [][NextValidate]_vars

----------------------------------------------------------------------------
(* analyze on the bundle of one site *)

MaxSeries == 3          \* records of a series

SocValues == {"5", "5.0", "7", "10"}
VoltValues == {"51.9", "52.1", "52.3"}

\* the series of values vs, with the times ascending from Time(first) or, when
\* ascending is false, descending to it
Series(vs, first, ascending) ==
    [i \in 1..Len(vs) |->
        Rec(vs[i], Time(IF ascending THEN first + i - 1 ELSE first + Len(vs) - i))]

SeriesOf(values, firsts, orders, n) ==
    UNION { { Series(vs, first, ascending) :
              vs \in [1..k -> values], first \in firsts, ascending \in orders } :
            k \in 0..n }

\* infos of another label first, then the SOC info unless soc is <<>>, then the
\* two voltage infos
Infos(soc, v_bat, vbms) ==
    << Info("PV", << Rec("7", Time(1)) >>) >>
    \o (IF soc = <<>> THEN <<>> ELSE << Info("SOC", soc[1]) >>)
    \o << Info("V-bat", v_bat), Info("BMS Voltage", vbms) >>

Bundle(infos) ==
    [site_id |-> "1", inverter_sn |-> SnOf(1, 1), inverter_type |-> "M",
     infos |-> <<infos>>, yesterday_max_soc |-> <<100>>]

\* any SOC series (or no SOC label) with fixed voltages, and any two voltage
\* series, their times aligned or shifted by one, with a fixed SOC series
AnalyzeBundles(n) ==
    { Bundle(Infos(soc, InfosNormal[2].records[1], InfosNormal[3].records[1])) :
        soc \in { <<>> } \cup { <<r>> : r \in SeriesOf(SocValues, {1}, BOOLEAN, n) } }
    \cup
    { Bundle(Infos(InfosNormal[1].records, v_bat, vbms)) :
        v_bat \in SeriesOf(VoltValues, {1}, {TRUE}, n),
        vbms \in SeriesOf(VoltValues, {1, 2}, {TRUE}, n) }

InitAnalyze ==
    /\ fetched \in { <<[key |-> "A", value |-> b]>> : b \in AnalyzeBundles(MaxSeries) }
    /\ sites_config = <<>>
    /\ upstream = <<>>
    /\ today = 1
    /\ validator = <<>>
    /\ cache_file = <<>>
    /\ last_refresh_file = <<>>
    /\ validated_sites = <<>>
    /\ pc = "analyze"
    /\ env = NoEnv
    /\ requests = <<>>
    /\ analysis = <<>>
    /\ published = <<>>
    /\ stored = <<>>
    /\ discovered = <<>>
    /\ events = <<>>
    /\ tasks = <<>>
    /\ ClockUnused

Analyze ==
    /\ pc = "analyze"
    /\ analysis' = analyze(fetched)
    /\ pc' = "analyzed"
    /\ UNCHANGED <<sites_config, upstream, today, validator, cache_file,
                   last_refresh_file, validated_sites, env, requests, fetched,
                   published, stored, discovered>>
    /\ UNCHANGED <<events, tasks, clock_vars>>

NextAnalyze == Analyze

SpecAnalyze == InitAnalyze /\ [][NextAnalyze]_vars

----------------------------------------------------------------------------
(* analyze on a mapping of several sites, some of them malformed *)

\* the bundles of a mapping: complete, without records, and malformed: no infos
\* key, a SOC info without a records key, a SOC value or a paired voltage value
\* that is no number; in the last one the value that is no number is at an
\* index that the analysis does not read
ManyBundles ==
    { Bundle(InfosNormal), Bundle(InfosOffline),
      [Bundle(<<>>) EXCEPT !.infos = <<>>],
      Bundle(<< [label |-> "SOC", records |-> <<>>] >>),
      Bundle(<< Info("SOC", << Rec("5", Time(1)), Rec("n/a", Time(2)) >>) >>),
      Bundle(<< Info("V-bat", << Rec("n/a", Time(1)) >>),
                Info("BMS Voltage", << Rec("52.1", Time(1)) >>) >>),
      Bundle(<< Info("V-bat", << Rec("52.1", Time(1)), Rec("n/a", Time(2)),
                                 Rec("52.3", Time(3)) >>),
                Info("BMS Voltage", << Rec("51.9", Time(1)) >>) >>) }

InitAnalyzeMany ==
    /\ fetched \in UNION { { [i \in 1..n |-> [key |-> PlantName(i), value |-> b[i]]] :
                              b \in [1..n -> ManyBundles] } :
                            n \in 0..(MaxPlants + 1) }
    /\ sites_config = <<>>
    /\ upstream = <<>>
    /\ today = 1
    /\ validator = <<>>
    /\ cache_file = <<>>
    /\ last_refresh_file = <<>>
    /\ validated_sites = <<>>
    /\ pc = "analyze"
    /\ env = NoEnv
    /\ requests = <<>>
    /\ analysis = <<>>
    /\ published = <<>>
    /\ stored = <<>>
    /\ discovered = <<>>
    /\ events = <<>>
    /\ tasks = <<>>
    /\ ClockUnused

SpecAnalyzeMany == InitAnalyzeMany /\ [][NextAnalyze]_vars

----------------------------------------------------------------------------
(* fetch_all_sites on any fleet *)

\* up to MaxPlants plants, each named A or B and listed on page 1 or 2
\* the fleets of up to `plants` plants, each on page 1 or 2, named A or B
DiscoveryFleets(plants) ==
    UNION { { [i \in 1..n |-> [name |-> nm[i], id |-> PlantId(i), page |-> pg[i],
                               inverters |-> [j \in 1..MaxRoster |->
                                   [sn |-> SnOf(i, j),
                                    equipMode |-> IF j < MaxRoster THEN "X" ELSE NONE]]]] :
              nm \in [1..n -> {"A", "B"}], pg \in [1..n -> {1, 2}] } :
            n \in 0..plants }

InitDiscovery ==
    /\ upstream \in DiscoveryFleets(MaxPlants)
    /\ sites_config = <<>>
    /\ today = 1
    /\ validator = <<>>
    /\ cache_file = <<>>
    /\ last_refresh_file = <<>>
    /\ validated_sites = <<>>
    /\ pc = "discover"
    /\ env = NoEnv
    /\ requests = <<>>
    /\ fetched = <<>>
    /\ analysis = <<>>
    /\ published = <<>>
    /\ stored = <<>>
    /\ discovered = <<>>
    /\ events = <<>>
    /\ tasks = <<>>
    /\ ClockUnused

Discover ==
    /\ pc = "discover"
    /\ \E d \in DiscoveryEnvsOn(upstream, DiscoveryFaultPages, DiscoveryFaultCounts) :
        \E found \in {fetch_all_sites(upstream, d)} :
            /\ discovered' = << found.all_sites >>
            /\ requests' = found.log
            /\ env' = [d |-> d, c |-> NoCycle]
    /\ pc' = "discovered"
    /\ UNCHANGED <<sites_config, upstream, today, validator, cache_file,
                   last_refresh_file, validated_sites, fetched, analysis, published,
                   stored>>
    /\ UNCHANGED <<events, tasks, clock_vars>>

NextDiscovery == Discover

SpecDiscovery == InitDiscovery /\ [][NextDiscovery]_vars

----------------------------------------------------------------------------
(* A first fetch cycle request by request: fetch_all_sites with the tasks of
   asyncio.gather, then the telemetry requests of fetch_data *)

\* the configuration names plant B before plant A; both plants have an M
\* inverter; the upstream lists them under their names or both as A
GatherConfig == << Site("B", PlantId(2)), Site("A", PlantId(1)) >>
GatherFleet ==
    Fleet(2, <<1, 2>>,
          [i \in 1..2 |-> << [sn |-> SnOf(i, 1), equipMode |-> "X"],
                             [sn |-> SnOf(i, 2), equipMode |-> "M"] >>])

\* the authentication is rejected, or the first or the last page fails once or
\* on every attempt and the roster call of a plant may fail
GatherDiscoveryEnvs ==
    { [NoDiscovery(GatherFleet) EXCEPT !.auth = "rejected"] }
    \cup { [auth |-> "ok", page_fails |-> pf, roster_out |-> ro, listing |-> "ok"] :
           pf \in PageFailsOn({1, total_pages}, {1, max_retries}),
           ro \in RosterOuts(GatherFleet) }

GatherFaults ==
    [outcomes |-> { SiteOut("ok", <<InfosNormal>>, <<YesterdayRecords>>),
                    SiteOut("error", <<>>, <<>>) },
     disks |-> {"ok"}, sinks |-> {"ok"}]

\* a get_plants task: "ready" for the attempt of index `attempt`, in the "sleep"
\* after it, or "done" with the response it returns (<<>> for None)
Task(st, attempt, response) == [st |-> st, attempt |-> attempt, response |-> response]

InitGather ==
    /\ sites_config = GatherConfig
    /\ upstream \in { GatherFleet, [GatherFleet EXCEPT ![2].name = PlantName(1)] }
    /\ today = 1
    /\ validator = <<>>
    /\ cache_file = <<>>
    /\ last_refresh_file = <<>>
    /\ validated_sites = <<>>
    /\ pc = "start"
    /\ env = NoEnv
    /\ requests = <<>>
    /\ fetched = <<>>
    /\ analysis = <<>>
    /\ published = <<>>
    /\ stored = <<>>
    /\ discovered = <<>>
    /\ events = <<>>
    /\ tasks = <<>>
    /\ ClockUnused

\* fetch_all_sites up to asyncio.gather(*plant_tasks): the token request, then
\* one task for each page, all created before the first of them runs
GatherStart ==
    /\ pc = "start"
    /\ \E d \in GatherDiscoveryEnvs :
        /\ env' = [d |-> d, c |-> NoCycle]
        /\ requests' = get_token(d.auth).log
        /\ IF get_token(d.auth).token = <<>>
           THEN pc' = "done" /\ UNCHANGED <<tasks, discovered>>
           ELSE /\ pc' = "gather"
                /\ tasks' = [p \in 1..total_pages |-> Task("ready", 0, <<>>)]
                /\ discovered' = << <<>> >>
    /\ UNCHANGED <<sites_config, upstream, today, validator, cache_file,
                   last_refresh_file, validated_sites, fetched, analysis, published,
                   stored, events, clock_vars>>

\* the pages that list no plant and do not fail: their tasks differ in nothing
\* but the page number, and their responses are taken in page order
QuietPages ==
    {p \in 1..total_pages : PagePlants(upstream, p) = <<>> /\ env.d.page_fails[p] = 0}

\* one attempt of the task of page p: a request under the limiter and its
\* response; the tasks of different pages interleave
PageAttempt(p) ==
    /\ pc = "gather"
    /\ tasks[p].st = "ready"
    /\ p \in QuietPages => \A q \in QuietPages : q < p => tasks[q].st = "done"
    /\ LET k == tasks[p].attempt
       IN  tasks' = [tasks EXCEPT ![p] =
                        IF k >= env.d.page_fails[p]
                        THEN Task("done", k, << PagePlants(upstream, p) >>)
                        ELSE IF k < max_retries - 1
                        THEN Task("sleep", k, <<>>)
                        ELSE Task("done", k, <<>>)]
    /\ UNCHANGED <<sites_config, upstream, today, validator, cache_file,
                   last_refresh_file, validated_sites, pc, env, requests, fetched,
                   analysis, published, stored, discovered, events, clock_vars>>

\* the sleep of the task of page p ends
PageWake(p) ==
    /\ pc = "gather"
    /\ tasks[p].st = "sleep"
    /\ tasks' = [tasks EXCEPT ![p] = Task("ready", tasks[p].attempt + 1, <<>>)]
    /\ UNCHANGED <<sites_config, upstream, today, validator, cache_file,
                   last_refresh_file, validated_sites, pc, env, requests, fetched,
                   analysis, published, stored, discovered, events, clock_vars>>

\* a gather that returns as soon as one task is done
JoinFirstDone ==
    /\ pc = "gather"
    /\ \E p \in 1..total_pages : tasks[p].st = "done"
    /\ pc' = "rosters"
    /\ UNCHANGED <<sites_config, upstream, today, validator, cache_file,
                   last_refresh_file, validated_sites, env, requests, fetched,
                   analysis, published, stored, discovered, events, tasks,
                   clock_vars>>

\* plants_info_list = await asyncio.gather(*plant_tasks) returns: every task is
\* done
JoinGather ==
    /\ pc = "gather"
    /\ \A p \in 1..total_pages : tasks[p].st = "done"
    /\ pc' = "rosters"
    /\ UNCHANGED <<sites_config, upstream, today, validator, cache_file,
                   last_refresh_file, validated_sites, env, requests, fetched,
                   analysis, published, stored, discovered, events, tasks,
                   clock_vars>>

\* how far a loop of the main coroutine is: the requests of `kind` it has made
Asked(kind) == Len(SelectSeq(requests, LAMBDA r : r.kind = kind))

\* a merge in which the pages that had to be retried come last
GatheredPlantsRetriedLast ==
    PlantsOf([p \in 1..total_pages |->
                 IF tasks[p].attempt = 0 THEN tasks[p].response ELSE <<>>])
    \o PlantsOf([p \in 1..total_pages |->
                    IF tasks[p].attempt > 0 THEN tasks[p].response ELSE <<>>])

\* the plants of plants_info_list, in page order
GatheredPlants == PlantsOf([p \in 1..total_pages |-> tasks[p].response])

\* get_all_sites, lines 117-127: the roster request of the next plant
RosterRequest ==
    /\ pc = "rosters"
    /\ Asked("inverters") < Len(GatheredPlants)
    /\ LET plant == GatheredPlants[Asked("inverters") + 1]
           got == get_site_inverters(plant, env.d.roster_out[plant.id])
       IN  /\ requests' = requests \o got.log
           /\ discovered' =
                  << DictSet(discovered[1], plant.name,
                             [id |-> plant.id,
                              inverters |-> IF got.inverters # <<>> THEN got.inverters
                                            ELSE << <<>> >>]) >>
    /\ UNCHANGED <<sites_config, upstream, today, validator, cache_file,
                   last_refresh_file, validated_sites, pc, env, fetched, analysis,
                   published, stored, events, tasks, clock_vars>>

\* get_all_sites and fetch_all_sites return; fetch_data, lines 144-164: return {}
\* without a site, else build the validator, store the cache and authenticate
Authenticate ==
    /\ pc = "rosters"
    /\ Asked("inverters") = Len(GatheredPlants)
    /\ IF discovered[1] = <<>>
       THEN /\ pc' = "done"
            /\ UNCHANGED <<validator, cache_file, last_refresh_file, stored, env,
                           requests>>
       ELSE /\ validator' = discovered
            /\ cache_file' = << JsonDump(discovered[1]) >>
            /\ last_refresh_file' = << IsoFormat(today) >>
            /\ stored' = discovered
            /\ \E c \in CycleEnvsOn(ValidNames(validate_sites(sites_config, discovered[1])),
                                    GatherFaults) :
                /\ env' = [env EXCEPT !.c = c]
                /\ requests' = requests \o get_token(c.auth).log
                /\ pc' = IF get_token(c.auth).token = <<>> THEN "done" ELSE "telemetry"
    /\ UNCHANGED <<sites_config, upstream, today, validated_sites, fetched, analysis,
                   published, discovered, events, tasks, clock_vars>>

\* the valid sites in the order of validated_sites.items()
ValidItems ==
    SelectSeq(validate_sites(sites_config, validator[1]),
              LAMBDA item : item.value.status = "valid")

\* fetch_data, lines 172-192: the requests of the next valid site, or the return
\* after the last one
TelemetryRequest ==
    /\ pc = "telemetry"
    /\ IF Asked("today") < Len(ValidItems)
       THEN LET item == ValidItems[Asked("today") + 1]
                got == fetch_inverter_data(item.value, item.key,
                                           env.c.site_out[item.key])
            IN  /\ requests' = requests \o got.log
                /\ fetched' = IF got.data # <<>>
                              THEN DictSet(fetched, item.key, got.data[1])
                              ELSE fetched
                /\ pc' = pc
       ELSE /\ pc' = "done"
            /\ UNCHANGED <<requests, fetched>>
    /\ UNCHANGED <<sites_config, upstream, today, validator, cache_file,
                   last_refresh_file, validated_sites, env, analysis, published,
                   stored, discovered, events, tasks, clock_vars>>

NextGather ==
    \/ GatherStart
    \/ \E p \in 1..total_pages : PageAttempt(p)
    \/ \E p \in 1..total_pages : PageWake(p)
    \/ JoinGather
    \/ RosterRequest
    \/ Authenticate
    \/ TelemetryRequest

SpecGather == InitGather /\ [][NextGather]_vars

----------------------------------------------------------------------------
(* The service started on any state of the two cache files *)

\* what the two files can hold when the process starts: no marker, a marker that
\* is no ISO date, or the marker of a store of some day; no snapshot, the
\* snapshot of a store (of a discovery of the fleet, {} included), or such a
\* snapshot cut off after some of its members; a store writes the snapshot
\* before the marker, so every marker can stand beside every snapshot
StartupFiles(fleet) ==
    LET documents == { JsonDump(fetch_all_sites(fleet, d).all_sites) :
                         d \in DiscoveryEnvs(fleet) }
        cut == [name |-> "", value |-> [id |-> [j |-> "eof", s |-> ""],
                                         inverters |-> <<>>]]
    IN  [marker : { <<>>, << [iso |-> FALSE, date |-> 0] >> }
                  \cup { << IsoFormat(day) >> : day \in 1..MaxDay },
         cache : { <<>> } \cup { << doc >> : doc \in documents }
                 \cup UNION { { << Append(SubSeq(doc, 1, k), cut) >> :
                                 k \in {0} \cup 1..(Len(doc) - 1) } :
                               doc \in documents }]

InitStartup ==
    /\ sites_config = LoopConfig
    /\ upstream = LoopFleet
    /\ today \in 1..MaxDay
    /\ validator = <<>>
    /\ \E files \in StartupFiles(LoopFleet) :
           /\ cache_file = files.cache
           /\ last_refresh_file = files.marker
    /\ validated_sites = <<>>
    /\ pc = "down"
    /\ env = NoEnv
    /\ requests = <<>>
    /\ fetched = <<>>
    /\ analysis = <<>>
    /\ published = <<>>
    /\ stored = <<>>
    /\ discovered = <<>>
    /\ events = <<>>
    /\ tasks = <<>>
    /\ ClockUnused

SpecStartup == InitStartup /\ [][Next]_vars

----------------------------------------------------------------------------
(* The claims *)

\* the requests of the last operation that have one of `kinds`
RequestsOf(kinds) == {i \in 1..Len(requests) : requests[i].kind \in kinds}
SitesRequested(kinds) == {requests[i].site : i \in RequestsOf(kinds)}

\* a fetch cycle has ended, and its authentication succeeded
CycleAuthenticated == pc = "sleeping" /\ env.c.auth = "ok"

\* the validation that the last cycle iterated over
CycleValidation == validate_sites(sites_config, validator[1])

\* C1: in a fetch cycle whose authentication succeeded, the returned mapping holds
\* exactly the valid sites whose today request succeeded, whatever subset of the
\* today requests failed, and the today request of every valid site was made
C1_PartialFailureIsolation ==
    CycleAuthenticated =>
        /\ Keys(fetched) = {n \in ValidNames(CycleValidation) :
                               env.c.site_out[n].today = "ok"}
        /\ SitesRequested({"today"}) = ValidNames(CycleValidation)

\* C1 witness: the first valid site fails, a later one succeeds and is returned
C1_Witness ==
    /\ CycleAuthenticated
    /\ Len(CycleValidation) = 2
    /\ ValidNames(CycleValidation) = Keys(CycleValidation)
    /\ env.c.site_out[CycleValidation[1].key].today = "error"
    /\ env.c.site_out[CycleValidation[2].key].today = "ok"
    /\ Keys(fetched) = {CycleValidation[2].key}

\* the configured sites whose site_id no site of the snapshot has
AbsentSites(all_sites_data) ==
    {i \in 1..Len(sites_config) :
        \A j \in 1..Len(all_sites_data) :
            Str(all_sites_data[j].value.id) # Str(sites_config[i].site_id)}

\* C2: a configured site whose site_id is not in the snapshot is invalid with
\* exists, id_matches and has_inverters false and no serial, and no fetch cycle
\* makes a today or yesterday request for it
C2_AbsentSiteNoFetch ==
    /\ validator # <<>> =>
        \A i \in AbsentSites(validator[1]) :
            LET v == Get(CycleValidation, sites_config[i].name)
            IN  /\ v.status = "invalid"
                /\ ~v.exists /\ ~v.id_matches /\ ~v.has_inverters
                /\ v.inverter_sn = NONE
                /\ pc = "refreshed" => Get(validated_sites, sites_config[i].name) = v
                /\ pc = "sleeping" =>
                       sites_config[i].name \notin SitesRequested({"today", "yesterday"})
    /\ (pc = "sleeping" /\ validator = <<>>) => RequestsOf({"today", "yesterday"}) = {}

\* C2 witness: a cycle that fetched one site and skipped an absent one whose name
\* a plant of the fleet has
C2_Witness ==
    /\ CycleAuthenticated
    /\ \E i \in AbsentSites(validator[1]) : HasKey(validator[1], sites_config[i].name)
    /\ SitesRequested({"today", "yesterday"}) # {}

\* the site of the snapshot that a site_id resolves to: the last one with that id
SnapshotSiteOf(all_sites_data, sid) ==
    all_sites_data[CHOOSE j \in 1..Len(all_sites_data) :
        /\ Str(all_sites_data[j].value.id) = sid
        /\ \A k \in (j + 1)..Len(all_sites_data) : Str(all_sites_data[k].value.id) # sid]

RosterOfEntry(entry) ==
    IF entry.value.inverters = <<>> THEN <<>> ELSE entry.value.inverters[1]

\* C3: a configured site whose site_id is in the snapshot and whose roster has an
\* inverter of type M, M1 or unset is valid, its inverter_sn is the first such
\* inverter of the roster and an unset type is recorded as M; a second run of
\* validate_sites on the same configuration and snapshot returns the same mapping
C3_FirstEligibleInverter ==
    pc = "validated" =>
        /\ validated_sites = validate_sites(sites_config, validator[1])
        /\ \A i \in (1..Len(sites_config)) \ AbsentSites(validator[1]) :
            LET roster == RosterOfEntry(SnapshotSiteOf(validator[1],
                                                       Str(sites_config[i].site_id)))
                eligible == {k \in 1..Len(roster) : roster[k].value \in {"M", "M1", NONE}}
                v == Get(validated_sites, sites_config[i].name)
            IN  eligible # {} =>
                    \E k \in eligible :
                        /\ \A m \in eligible : k <= m
                        /\ v.status = "valid"
                        /\ v.inverter_sn = roster[k].key
                        /\ v.inverter_type =
                               (IF roster[k].value = NONE THEN "M" ELSE roster[k].value)

\* C3 witness: a roster whose first inverter has another type, whose second is
\* unset and whose third, if any, is eligible too
C3_Witness ==
    /\ pc = "validated"
    /\ \E i \in (1..Len(sites_config)) \ AbsentSites(validator[1]) :
        LET roster == RosterOfEntry(SnapshotSiteOf(validator[1],
                                                   Str(sites_config[i].site_id)))
            v == Get(validated_sites, sites_config[i].name)
        IN  /\ Len(roster) = MaxRoster
            /\ roster[1].value = "X"
            /\ \A k \in 2..Len(roster) : roster[k].value = NONE
            /\ v.inverter_sn = roster[2].key
            /\ v.inverter_type = "M"

\* the bundle that was analyzed, and the records of its first info with a label
InputInfos == fetched[1].value.infos[1]
InfosWith(label) == {i \in 1..Len(InputInfos) : InputInfos[i].label = label}
InputSeries(label) ==
    IF InfosWith(label) = {} THEN <<>>
    ELSE InputInfos[CHOOSE i \in InfosWith(label) :
                        \A j \in InfosWith(label) : i <= j].records[1]

\* C7: for a SOC series that is not empty, lowest_soc and its time are those of
\* the first record of the series, in its order, whose numeric value is the
\* minimum, and current_soc and its time are those of the last record
C7_LowestAndCurrentSoc ==
    (pc = "analyzed" /\ InputSeries("SOC") # <<>>) =>
        LET soc == InputSeries("SOC")
            a == Get(analysis, "A")
        IN  /\ \E k \in 1..Len(soc) :
                /\ \A j \in 1..Len(soc) : Float(soc[k].value) <= Float(soc[j].value)
                /\ \A j \in 1..(k - 1) : Float(soc[j].value) > Float(soc[k].value)
                /\ a.lowest_soc = soc[k].value
                /\ a.lowest_soc_time = soc[k].time
            /\ a.current_soc = soc[Len(soc)].value
            /\ a.current_soc_time = soc[Len(soc)].time

\* C7 witness: the series 10, 5, 5.0 with descending times: the lowest is the
\* "5" of the second record, the current the "5.0" of the third
C7_Witness ==
    /\ pc = "analyzed"
    /\ InputSeries("SOC") = << Rec("10", Time(3)), Rec("5", Time(2)), Rec("5.0", Time(1)) >>
    /\ Get(analysis, "A").lowest_soc = "5"
    /\ Get(analysis, "A").lowest_soc_time = Time(2)
    /\ Get(analysis, "A").current_soc = "5.0"
    /\ Get(analysis, "A").current_soc_time = Time(1)

\* C8: when the SOC series is empty or no info has the label SOC, the site is in
\* the analysis with lowest_soc and current_soc "OFFLINE" and both times absent
C8_OfflineSentinel ==
    (pc = "analyzed" /\ InputSeries("SOC") = <<>>) =>
        /\ HasKey(analysis, "A")
        /\ Get(analysis, "A").lowest_soc = "OFFLINE"
        /\ Get(analysis, "A").current_soc = "OFFLINE"
        /\ Get(analysis, "A").lowest_soc_time = NONE
        /\ Get(analysis, "A").current_soc_time = NONE

\* C8 witness: no info has the label SOC, the voltages are analyzed
C8_Witness ==
    /\ pc = "analyzed"
    /\ InfosWith("SOC") = {}
    /\ HasKey(analysis, "A")
    /\ Get(analysis, "A").current_soc = "OFFLINE"
    /\ Get(analysis, "A").max_v_diff # <<>>

\* the maximum fields of the analysis of the two voltage series
MaxFields(a) == <<a.max_v_diff, a.max_diff_time, a.max_v_bat, a.max_v_bat_time>>

\* C9: the differential is taken over the pairs at the same index, as many as the
\* shorter series has: the maximum fields are those of one such pair, no such pair
\* has a greater differential, and they are what they are with the longer series
\* cut to the length of the shorter
C9_PositionalPairs ==
    (pc = "analyzed" /\ InputSeries("V-bat") # <<>> /\ InputSeries("BMS Voltage") # <<>>) =>
        LET v_bat == InputSeries("V-bat")
            vbms == InputSeries("BMS Voltage")
            n == Min2(Len(v_bat), Len(vbms))
            a == Get(analysis, "A")
            cut == Bundle(Infos(<<InputSeries("SOC")>>, Take(v_bat, n), Take(vbms, n)))
        IN  /\ \E i \in 1..n :
                /\ a.max_v_diff = << Abs(Float(v_bat[i].value) - Float(vbms[i].value)) >>
                /\ a.max_diff_time = v_bat[i].time
                /\ a.max_v_bat = << Float(v_bat[i].value) >>
                /\ a.max_v_bat_time = v_bat[i].time
            /\ \A j \in 1..n :
                Abs(Float(v_bat[j].value) - Float(vbms[j].value)) <= a.max_v_diff[1]
            /\ MaxFields(a) = MaxFields(analyze_site(cut))

\* C9 witness: the battery series is longer, its last record differs most from
\* every BMS record, at its index and at its time, and is not the maximum
C9_Witness ==
    /\ pc = "analyzed"
    /\ Len(InputSeries("V-bat")) = Len(InputSeries("BMS Voltage")) + 1
    /\ Len(InputSeries("BMS Voltage")) >= 2
    /\ Last(InputSeries("V-bat")).value = "52.3"
    /\ \A j \in 1..Len(InputSeries("BMS Voltage")) :
           /\ InputSeries("BMS Voltage")[j].value = "51.9"
           /\ InputSeries("BMS Voltage")[j].time = Time(j + 1)
    /\ \A j \in 1..Len(InputSeries("BMS Voltage")) : InputSeries("V-bat")[j].value = "52.1"
    /\ Get(analysis, "A").max_v_diff = <<2>>
    /\ Get(analysis, "A").max_diff_time = Time(1)

\* a cycle in which authentication succeeds, every attempted today request
\* succeeds and the analysis of every fetched site succeeds
CycleSucceeds ==
    /\ CycleAuthenticated
    /\ \A n \in ValidNames(CycleValidation) : env.c.site_out[n].today = "ok"
    /\ \A i \in 1..Len(fetched) : ~AnalyzeRaises(fetched[i].value)

\* C4 as stated: in a cycle that succeeds, telemetry is attempted for exactly the
\* valid configured sites, the analysis has exactly their names as keys and
\* publish is invoked exactly once with it
C4_PublishOnceAlways ==
    CycleSucceeds =>
        /\ SitesRequested({"today"}) = ValidNames(CycleValidation)
        /\ Keys(analysis) = ValidNames(CycleValidation)
        /\ published = << analysis >>

\* C4: in a cycle that succeeds, telemetry is attempted for exactly the valid
\* configured sites and the analysis has exactly their names as keys; publish is
\* invoked exactly once with it when a configured site is valid, and is not
\* invoked when none is
C4_PublishOnceWhenValid ==
    CycleSucceeds =>
        /\ SitesRequested({"today"}) = ValidNames(CycleValidation)
        /\ Keys(analysis) = ValidNames(CycleValidation)
        /\ ValidNames(CycleValidation) # {} => published = << analysis >>
        /\ ValidNames(CycleValidation) = {} => published = <<>>

\* C4 witness: site A is valid and site B is not in the fleet; only A is
\* attempted and the mapping published has the single key A
C4_Witness ==
    /\ CycleSucceeds
    /\ \E i \in AbsentSites(validator[1]) : sites_config[i].name = "B"
    /\ ValidNames(CycleValidation) = {"A"}
    /\ SitesRequested({"today"}) = {"A"}
    /\ Len(published) = 1
    /\ Keys(published[1]) = {"A"}

\* C5: after construction, a marker of the same calendar day and a cache give a
\* validator, and its validate_sites mapping of any configuration is that of the
\* snapshot that was stored; a marker of another day gives no validator, and the
\* first cycle of a service without a validator begins with a discovery: a token
\* request and, with a token, a request for every listing page
C5_CacheRoundTrip ==
    /\ [](pc = "constructed" /\ last_refresh_file # <<>> =>
            IF FromIsoDate(last_refresh_file[1]) = today /\ cache_file # <<>>
            THEN /\ validator # <<>>
                 /\ stored # <<>>
                 /\ \A cfg \in ServiceConfigs :
                        validate_sites(cfg, validator[1]) = validate_sites(cfg, stored[1])
            ELSE validator = <<>>)
    /\ [][(pc = "constructed" /\ validator = <<>> /\ pc' = "sleeping") =>
            /\ discovered' # <<>>
            /\ requests' # <<>>
            /\ requests'[1].kind = "token"
            /\ env'.d.auth = "ok" =>
                   \A p \in 1..total_pages :
                       \E i \in 1..Len(requests') :
                           requests'[i].kind = "plants" /\ requests'[i].key = ToString(p)
          ]_vars

\* C5 witness: a service constructed on the day of the marker, its validator the
\* stored snapshot of two sites, one with an inverter whose type is unset
C5_Witness ==
    /\ pc = "constructed"
    /\ last_refresh_file # <<>>
    /\ FromIsoDate(last_refresh_file[1]) = today
    /\ validator = stored
    /\ Len(stored[1]) = 2
    /\ \E i \in 1..Len(stored[1]) :
           /\ stored[1][i].value.inverters # <<>>
           /\ \E k \in 1..Len(stored[1][i].value.inverters[1]) :
                  stored[1][i].value.inverters[1][k].value = NONE

\* the listing pages that fail on every attempt of a discovery
FailedPages == {p \in 1..total_pages : env.d.page_fails[p] >= max_retries}
ListedOn(pages) == {i \in 1..Len(upstream) : upstream[i].page \in pages}

\* C6: in a discovery with a token, a page that fails on all max_retries
\* attempts is requested max_retries times and get_plants returns None for it;
\* the snapshot has the name of every plant of the other pages, and each of its
\* sites has the name and the id of a plant of another page
C6_FailedPageContributesNothing ==
    (pc = "discovered" /\ env.d.auth = "ok") =>
        /\ \A p \in FailedPages :
            /\ get_plants(upstream, p, env.d.page_fails[p]).response = <<>>
            /\ Cardinality({i \in RequestsOf({"plants"}) :
                               requests[i].key = ToString(p)}) = max_retries
        /\ \A i \in ListedOn((1..total_pages) \ FailedPages) :
            HasKey(discovered[1], upstream[i].name)
        /\ \A k \in 1..Len(discovered[1]) :
            \E i \in ListedOn((1..total_pages) \ FailedPages) :
                /\ upstream[i].name = discovered[1][k].key
                /\ upstream[i].id = discovered[1][k].value.id

\* C6 witness: page 1 fails, it lists plant A, page 2 lists plant B, and the
\* snapshot is that of plant B
C6_Witness ==
    /\ pc = "discovered"
    /\ env.d.auth = "ok"
    /\ FailedPages = {1}
    /\ \E i \in ListedOn({1}) : upstream[i].name = "A"
    /\ \E i \in ListedOn({2}) : upstream[i].name = "B"
    /\ Keys(discovered[1]) = {"B"}

\* C10: when the authentication of a cycle fails the cycle returns the empty
\* mapping and makes no telemetry request; when the authentication of a
\* discovery fails the snapshot is empty and no listing or roster request is
\* made; each authentication is one token request
C10_AuthFailureEmpty ==
    pc \in {"refreshed", "sleeping"} =>
        /\ env.c.auth \in {"rejected", "error"} =>
               /\ fetched = <<>>
               /\ RequestsOf({"today", "yesterday"}) = {}
        /\ env.d.auth \in {"rejected", "error"} =>
               /\ discovered = << <<>> >>
               /\ fetched = <<>>
               /\ RequestsOf({"plants", "inverters", "today", "yesterday"}) = {}
        /\ Cardinality(RequestsOf({"token"})) =
               (IF env.d.auth = "unused" THEN 0 ELSE 1)
               + (IF env.c.auth = "unused" THEN 0 ELSE 1)

\* C10 witness: a cycle with a validator and a valid site whose authentication
\* errors: one token request and nothing fetched
C10_Witness ==
    /\ pc = "sleeping"
    /\ env.c.auth = "error"
    /\ validator # <<>>
    /\ ValidNames(CycleValidation) # {}
    /\ requests = << Req("token", "", "") >>
    /\ fetched = <<>>

\* some step of the current iteration has failed: the sweep, the refresh, the
\* discovery or the authentication of the cycle, a today request, the analysis
\* of a site, a write to the disk or the publishing
IterationFailed ==
    \/ pc = "backoff"
    \/ /\ pc \in {"cycle", "sleeping"}
       /\ Range(events) \cap {"refresh_error", "cycle_error", "no_data",
                              "save_error", "publish_error"} # {}
    \/ /\ pc = "sleeping"
       /\ \/ env.d.auth = "rejected"
          \/ env.c.auth \in {"rejected", "error"}
          \/ \E n \in DOMAIN env.c.site_out : env.c.site_out[n].today = "error"
          \/ Keys(analysis) # Keys(fetched)

\* the cycle of the current iteration has run
CycleRan == pc = "sleeping" /\ "fetch" \in Range(events)

\* C11: whatever step of an iteration has failed, the loop later starts a further
\* iteration, and a fetch/analyze/publish cycle runs after that
C11_LoopSurvivesErrors ==
    /\ IterationFailed ~> (pc = "loop_top")
    /\ (pc = "loop_top") ~> CycleRan

\* C11 witness: in an iteration that is not the first, before the refresh is
\* due, the cycle makes a discovery (every earlier discovery failed and left no
\* validator) and publishes
C11_Witness ==
    /\ CycleRan
    /\ now >= FirstClock + 60
    /\ Hour(now) = 4
    /\ env.d.auth = "ok"
    /\ published # <<>>

\* the steps of the cycle of the current iteration, without the errors that
\* save_data and publish log: the events from "fetch" on
RECURSIVE From(_, _)
From(seq, e) ==
    IF seq = <<>> THEN <<>>
    ELSE IF Head(seq) = e THEN seq ELSE From(Tail(seq), e)

CycleSteps == SelectSeq(From(events, "fetch"),
                        LAMBDA e : e \notin {"save_error", "publish_error"})

\* the position of a step among the steps of the cycle, 0 when it is not there
StepAt(e) ==
    IF e \in Range(CycleSteps)
    THEN CHOOSE i \in 1..Len(CycleSteps) : CycleSteps[i] = e
    ELSE 0

\* C12 as stated: every iteration that reaches its sleep has run the cycle:
\* fetch, then analyze, then the writes of the raw and the analyzed snapshot,
\* then publish, and the analysis of the iteration was handed to publish, also
\* when the fetch result is empty
C12_CycleAlwaysPublishes ==
    pc = "sleeping" =>
        /\ 0 < StepAt("fetch")
        /\ StepAt("fetch") < StepAt("analyze")
        /\ StepAt("analyze") < StepAt("save_analysis")
        /\ 0 < StepAt("save_raw")
        /\ StepAt("save_raw") < StepAt("publish")
        /\ StepAt("save_analysis") < StepAt("publish")
        /\ published = << analysis >>

\* C12: an iteration ends in the handler of the loop, without a cycle, only when
\* the sweep raised; every other iteration, at any time of the day, fetches; when
\* the fetch returns data the raw snapshot is written, the data analyzed, the
\* analysis written and then handed to publish, once, in this order; when the
\* fetch returns nothing or raises, nothing is analyzed, written or published
C12_CycleOrder ==
    /\ pc = "backoff" => events = <<"cleanup", "loop_error">>
    /\ pc = "sleeping" =>
        IF fetched # <<>>
        THEN /\ CycleSteps = <<"fetch", "save_raw", "analyze", "save_analysis", "publish">>
             /\ analysis = analyze(fetched)
             /\ published = << analysis >>
        ELSE /\ CycleSteps \in { <<"fetch", "no_data">>, <<"fetch", "cycle_error">> }
             /\ analysis = <<>>
             /\ published = <<>>

\* C12 witness: the iteration of 05:00 refreshes, then fetches, writes, analyzes,
\* writes and publishes
C12_Witness ==
    /\ pc = "sleeping"
    /\ daily.refresh = 1
    /\ events = <<"discovery", "rebuild", "cache_store", "validate", "save_sites",
                  "fetch", "save_raw", "analyze", "save_analysis", "publish">>
    /\ analysis # <<>>
    /\ published = << analysis >>

\* the requests i..j of the last operation can be issued within one second:
\* no wait lies between them and each limiter grants at most its permits
OneWindow(i, j) ==
    /\ \A k \in i..j : requests[k].kind # "sleep"
    /\ Cardinality({k \in i..j : requests[k].limiter = "api"}) <= rate_limit
    /\ Cardinality({k \in i..j : requests[k].limiter = "fetcher"}) <= fetcher_rate_limit

\* C13: every outbound request of an operation holds a permit of one and the same
\* rate limiter, and no more requests than the configured rate limit can be
\* issued within one second
C13_OneSharedLimiter ==
    /\ \E shared \in {"api", "fetcher"} :
           \A i \in RequestsOf({"token", "plants", "inverters", "today", "yesterday"}) :
               requests[i].limiter = shared
    /\ \A i \in 1..Len(requests) : \A j \in i..Len(requests) :
           OneWindow(i, j) => j - i + 1 <= rate_limit

\* the requests and the waits of get_plants for a page, in order
PageLog(p) ==
    SelectSeq(requests, LAMBDA r : r.kind \in {"plants", "sleep"} /\ r.key = ToString(p))

\* C14: in a discovery with a token, get_plants makes for a page that fails on
\* its first f attempts f + 1 attempts, and max_retries attempts when f is
\* max_retries or more; the attempt of index k is followed by a wait of
\* (k + 1) * 2 seconds when another attempt follows, and by nothing otherwise;
\* the result is the page of the first attempt with status 200, and None when
\* max_retries attempts have failed
C14_BoundedRetries ==
    (pc = "discovered" /\ env.d.auth = "ok") =>
        \A p \in 1..total_pages :
            LET f == env.d.page_fails[p]
                attempts == Min2(f + 1, max_retries)
                log == PageLog(p)
            IN  /\ Len(log) = 2 * attempts - 1
                /\ \A k \in 0..(attempts - 1) :
                       /\ log[2 * k + 1].kind = "plants"
                       /\ k < attempts - 1 =>
                              /\ log[2 * k + 2].kind = "sleep"
                              /\ log[2 * k + 2].delay = (k + 1) * 2
                /\ get_plants(upstream, p, f).response =
                       (IF f < max_retries THEN << PagePlants(upstream, p) >> ELSE <<>>)

\* C14 witness: page 1 fails on every attempt: max_retries requests with waits of
\* 2 and 4 seconds between them, none after the last, and its plant is missing;
\* page 2 gets its result at the first attempt
C14_Witness ==
    /\ pc = "discovered"
    /\ env.d.auth = "ok"
    /\ env.d.page_fails[1] = max_retries
    /\ Len(PageLog(1)) >= 5
    /\ PageLog(1)[2].delay = 2
    /\ PageLog(1)[4].delay = 4
    /\ PageLog(1)[Len(PageLog(1))].kind = "plants"
    /\ Len(PageLog(2)) = 1
    /\ \E i \in ListedOn({1}) : ~HasKey(discovered[1], upstream[i].name)

\* the requests of one kind that the last cycle made for a site
RequestsFor(kind, site_name) ==
    {i \in RequestsOf({kind}) : requests[i].site = site_name}

\* C15: in an authenticated cycle, the today request of a valid site that fails
\* (another status than 200, or an exception) is made max_retries times before
\* the site is left out of the returned mapping, and so is a yesterday request
\* that fails before the site gets no yesterday value
C15_TelemetryRetried ==
    CycleAuthenticated =>
        \A n \in ValidNames(CycleValidation) :
            /\ env.c.site_out[n].today \in {"status", "error"} =>
                   /\ Cardinality(RequestsFor("today", n)) = max_retries
                   /\ n \notin Keys(fetched)
            /\ (env.c.site_out[n].today = "ok" /\ env.c.site_out[n].yesterday = <<>>) =>
                   Cardinality(RequestsFor("yesterday", n)) = max_retries

\* an exception that no statement of the iteration expects: the sweep raises, a
\* malformed listing makes the discovery of the refresh or of the cycle raise
UnexpectedErrors == {"loop_error", "refresh_error", "cycle_error"}

\* C16 as stated: once an unexpected error has occurred in the sweep, the
\* refresh or the cycle of an iteration, the iteration is in the handler of the
\* loop, which waits 60 seconds
C16_EveryErrorBacksOff ==
    (pc \in {"check_refresh", "cycle", "sleeping", "backoff"}
     /\ Range(events) \cap UnexpectedErrors # {}) => pc = "backoff"

\* C16: only an exception of the sweep reaches the handler of the loop, which
\* then waits 60 seconds and not the fetch interval; an exception inside the
\* refresh is caught by the refresh and the iteration goes on with the cycle; an
\* exception inside the cycle is caught by the cycle; after the cycle the loop
\* waits the fetch interval
C16_OnlySweepBacksOff ==
    /\ [](pc = "backoff" => events = <<"cleanup", "loop_error">>)
    /\ [][/\ "loop_error" \in Range(events') => pc' \in {"backoff", "loop_top"}
          /\ pc = "backoff" => (pc' = "loop_top" /\ now' = Later(now, 60))
          /\ (pc = "check_refresh" /\ "refresh_error" \in Range(events')) => pc' = "cycle"
          /\ (pc = "cycle" /\ "cycle_error" \in Range(events')) => pc' = "sleeping"
          /\ pc = "sleeping" =>
                 (pc' = "loop_top" /\ now' = Later(now, data_fetch_interval))
         ]_vars

\* C16 witness: the sweep of 04:00:30 raised, and the next iteration starts 60
\* seconds later although the fetch interval is 30 seconds
C16_Witness ==
    /\ pc = "loop_top"
    /\ events = <<"cleanup", "loop_error">>
    /\ data_fetch_interval = 30
    /\ now = HMS(4, 1, 30)

\* the steps of a refresh that completes
RefreshSteps == <<"discovery", "rebuild", "cache_store", "validate", "save_sites">>

\* the events of the current iteration without those of the sweep
AfterSweep == IF events # <<>> /\ events[1] = "cleanup" THEN Tail(events) ELSE events

\* C17: the sweep runs in an iteration exactly when the clock read at its check
\* shows 04:00, the refresh exactly when the clock read at its check shows 05:00;
\* the sweep is the first step of its iteration; a refresh that raises leaves
\* the validator as it was; a refresh that completes has discovered, rebuilt the
\* validator, stored the cache and written the raw snapshot before the fetch of
\* the same iteration starts, and that cycle requests telemetry for exactly the
\* sites that are valid in the rebuilt validator
C17_RefreshAtFiveBeforeFetch ==
    /\ [][/\ pc = "loop_top" =>
                 ("cleanup" \in Range(events') <=> (Hour(now) = 4 /\ Minute(now) = 0))
          /\ pc = "check_refresh" =>
                 /\ events' # events <=> (Hour(now) = 5 /\ Minute(now) = 0)
                 /\ daily'.refresh = daily.refresh + (IF events' # events THEN 1 ELSE 0)
                 /\ events' # events =>
                        \/ /\ events' = events \o RefreshSteps
                           /\ validator' = discovered'
                           /\ cache_file' = << JsonDump(discovered'[1]) >>
                           /\ stored' = discovered'
                        \/ /\ events' = events \o <<"discovery", "refresh_error">>
                           /\ UNCHANGED <<validator, cache_file, stored>>
         ]_vars
    /\ []((pc = "sleeping" /\ "save_sites" \in Range(events)) =>
            /\ SubSeq(AfterSweep, 1, Len(RefreshSteps) + 1) = RefreshSteps \o <<"fetch">>
            /\ validator = stored
            /\ env.c.auth = "ok" =>
                   SitesRequested({"today"}) =
                       ValidNames(validate_sites(sites_config, stored[1])))
    /\ []("cleanup" \in Range(events) => events[1] = "cleanup")

\* C17 witness: the refresh of 05:00 rebuilt the validator from a discovery whose
\* authentication was rejected, and the cycle of the same iteration validated
\* against it: it authenticated and requested no telemetry
C17_Witness ==
    /\ pc = "sleeping"
    /\ daily.refresh = 1
    /\ SubSeq(events, 1, Len(RefreshSteps) + 1) = RefreshSteps \o <<"fetch">>
    /\ validator = << <<>> >>
    /\ env.c.auth = "ok"
    /\ RequestsOf({"today"}) = {}

\* C18: on a day on which the process runs from before 04:00 until after 05:00,
\* whatever the fetch interval and the durations of the cycles, neither the sweep
\* nor the refresh has run more than once, and once the clock has passed the
\* minutes in which the loop starts them each of them has run once
C18_DailyActionsExactlyOnce ==
    /\ daily.cleanup <= 1
    /\ daily.refresh <= 1
    /\ (pc = "loop_top" /\ now = MaxClock) => (daily.cleanup = 1 /\ daily.refresh = 1)

\* the plants that a discovery lists (their page does not fail on every attempt)
\* and whose name no other listed plant has
ListedAlone ==
    {i \in ListedOn((1..total_pages) \ FailedPages) :
        \A j \in ListedOn((1..total_pages) \ FailedPages) :
            j # i => upstream[j].name # upstream[i].name}

\* C20 as stated: in a discovery with a token the snapshot has no entry for a
\* listed plant whose roster call fails, and has every other listed plant with
\* its own roster
C20_FailedRosterNoEntry ==
    (pc = "discovered" /\ env.d.auth = "ok") =>
        \A i \in ListedAlone :
            IF env.d.roster_out[upstream[i].id] = "error"
            THEN ~HasKey(discovered[1], upstream[i].name)
            ELSE /\ HasKey(discovered[1], upstream[i].name)
                 /\ Get(discovered[1], upstream[i].name).id = upstream[i].id

\* C20: in a discovery with a token every listed plant has an entry with its id,
\* also a plant whose roster call fails; the roster of that entry is the empty
\* dict when the call fails or answers without data.infos, and the plant's own
\* roster otherwise; a roster request is made for every listed plant
C20_FailedRosterEmptyEntry ==
    (pc = "discovered" /\ env.d.auth = "ok") =>
        /\ \A i \in ListedAlone :
            /\ HasKey(discovered[1], upstream[i].name)
            /\ Get(discovered[1], upstream[i].name) =
                   [id |-> upstream[i].id,
                    inverters |->
                        IF env.d.roster_out[upstream[i].id] = "ok"
                        THEN << RosterDict(upstream[i].inverters, <<>>) >>
                        ELSE << <<>> >>]
        /\ \A i \in ListedOn((1..total_pages) \ FailedPages) :
            \E k \in RequestsOf({"inverters"}) : requests[k].key = Str(upstream[i].id)

\* C20 witness: the roster call of plant A raises and that of plant B succeeds:
\* the snapshot has A with an empty roster and B with its two inverters
C20_Witness ==
    /\ pc = "discovered"
    /\ env.d.auth = "ok"
    /\ Len(upstream) = 2
    /\ ListedAlone = {1, 2}
    /\ env.d.roster_out[upstream[1].id] = "error"
    /\ env.d.roster_out[upstream[2].id] = "ok"
    /\ Get(discovered[1], upstream[1].name).inverters = << <<>> >>
    /\ Len(Get(discovered[1], upstream[2].name).inverters[1]) = MaxRoster

\* the keys, or the sites, of the requests of one kind, in the order they are
\* made
KeysAsked(kind) ==
    LET rs == SelectSeq(requests, LAMBDA r : r.kind = kind)
    IN  [i \in 1..Len(rs) |-> rs[i].key]
SitesAsked(kind) ==
    LET rs == SelectSeq(requests, LAMBDA r : r.kind = kind)
    IN  [i \in 1..Len(rs) |-> rs[i].site]

\* every task of the batch has made all of its attempts and has returned
PagesComplete ==
    \A p \in 1..total_pages :
        /\ tasks[p].st = "done"
        /\ tasks[p].attempt + 1 = Min2(env.d.page_fails[p] + 1, max_retries)

\* the plants that a page which answers lists, in page order, and the
\* configured sites whose plant is among them with a roster and is the last
\* listed with its name, in the order of the configuration
PlantsExpected == SelectSeq(upstream, LAMBDA plant : plant.page \notin FailedPages)
SitesExpected ==
    SelectSeq(sites_config,
              LAMBDA s : \E i \in 1..Len(PlantsExpected) :
                            /\ PlantsExpected[i].id = s.site_id
                            /\ env.d.roster_out[s.site_id] = "ok"
                            /\ \A j \in (i + 1)..Len(PlantsExpected) :
                                   PlantsExpected[j].name # PlantsExpected[i].name)

\* C19: in a discovery with a token the tasks of all total_pages pages exist
\* from the start of the gather on; a roster or telemetry request is made only
\* when every page task is done with all of its attempts and waits; after the
\* join each step of the main coroutine adds the requests of one plant (its
\* roster request) or of one site (its today request, then its yesterday
\* request), after those of the one before; the roster requests follow the
\* plants in page order and the telemetry requests the valid sites in the order
\* of the validated sites
C19_BatchThenOneAtATime ==
    /\ [](pc = "gather" => DOMAIN tasks = 1..total_pages)
    /\ [](RequestsOf({"inverters", "today", "yesterday"}) # {} => PagesComplete)
    /\ [][pc \notin {"start"} /\ requests' # requests =>
            \E new \in {SubSeq(requests', Len(requests) + 1, Len(requests'))} :
                /\ requests' = requests \o new
                /\ \/ Len(new) = 1 /\ new[1].kind \in {"inverters", "token", "today"}
                   \/ /\ Len(new) = 2
                      /\ new[1].kind = "today" /\ new[2].kind = "yesterday"
                      /\ new[1].site = new[2].site]_vars
    /\ [](pc = "done" /\ env.d.auth = "ok" =>
            /\ KeysAsked("inverters")
                 = [i \in 1..Len(PlantsExpected) |-> Str(PlantsExpected[i].id)]
            /\ env.c.auth = "ok" =>
                 SitesAsked("today")
                   = [i \in 1..Len(SitesExpected) |-> SitesExpected[i].name])

\* a cycle has ended in which a page task retried, the rosters of two plants
\* were requested and two sites were fetched in the order of the configuration
C19_Witness ==
    /\ pc = "done"
    /\ \E p \in 1..total_pages : tasks # <<>> /\ tasks[p].attempt > 0
    /\ KeysAsked("inverters") = << Str(PlantId(1)), Str(PlantId(2)) >>
    /\ SitesAsked("today") = <<"B", "A">>
    /\ SitesAsked("yesterday") # <<>>


\* C21: whatever the two cache files hold when the process starts, the
\* construction ends (no exception leaves it): with a validator only when the
\* marker is an ISO date of the current day and the snapshot file is a complete
\* document, and the validator is then that whole document; with a missing or
\* unparsable marker, a marker of another day, a missing snapshot or a snapshot
\* that was cut off, without a validator; and the first cycle of a service
\* without a validator begins with a discovery
C21_CacheLoadNeverFatal ==
    /\ [](pc = "constructed" =>
            IF /\ last_refresh_file # <<>>
               /\ ~FromIsoRaises(last_refresh_file[1])
               /\ FromIsoDate(last_refresh_file[1]) = today
               /\ cache_file # <<>>
               /\ ~JsonLoadRaises(cache_file[1])
            THEN validator # <<>> /\ JsonDump(validator[1]) = cache_file[1]
            ELSE validator = <<>>)
    /\ [][pc = "down" => pc' = "constructed"]_vars
    /\ [][(pc = "constructed" /\ validator = <<>> /\ pc' = "sleeping") =>
            /\ env'.d.auth # "unused"
            /\ requests' # <<>> /\ requests'[1].kind = "token"
            /\ env'.d.auth = "ok" =>
                 \A p \in 1..total_pages :
                    \E k \in RequestsOf({"plants"})' : requests'[k].key = ToString(p)
          ]_vars

\* a service constructed without a validator beside a marker of the day and a
\* snapshot file that was cut off after its first site
C21_Witness ==
    /\ pc = "constructed"
    /\ validator = <<>>
    /\ last_refresh_file # <<>> /\ ~FromIsoRaises(last_refresh_file[1])
    /\ FromIsoDate(last_refresh_file[1]) = today
    /\ cache_file # <<>> /\ Len(cache_file[1]) = 2 /\ JsonLoadRaises(cache_file[1])


\* the differential of the pair at index i of the two voltage series
PairDiff(i) ==
    Abs(Float(InputSeries("V-bat")[i].value) - Float(InputSeries("BMS Voltage")[i].value))

\* C22: when both voltage series are non-empty, max_v_diff is the greatest
\* differential of the pairs at the same index, and max_diff_time, max_v_bat and
\* max_v_bat_time are the time and the value of the battery record of the first
\* pair, in series order, that has this differential
C22_FirstMaxDifferential ==
    (pc = "analyzed" /\ InputSeries("V-bat") # <<>> /\ InputSeries("BMS Voltage") # <<>>) =>
        LET v_bat == InputSeries("V-bat")
            n == Min2(Len(v_bat), Len(InputSeries("BMS Voltage")))
            a == Get(analysis, "A")
        IN  \E k \in 1..n :
                /\ \A j \in 1..n : PairDiff(j) <= PairDiff(k)
                /\ \A j \in 1..(k - 1) : PairDiff(j) < PairDiff(k)
                /\ a.max_v_diff = << PairDiff(k) >>
                /\ a.max_diff_time = v_bat[k].time
                /\ a.max_v_bat = << Float(v_bat[k].value) >>
                /\ a.max_v_bat_time = v_bat[k].time

\* the second and the third pair have the greatest differential, with
\* different battery values: the fields are those of the second pair
C22_Witness ==
    /\ pc = "analyzed"
    /\ Len(InputSeries("V-bat")) = 3 /\ Len(InputSeries("BMS Voltage")) = 3
    /\ PairDiff(1) < PairDiff(2) /\ PairDiff(2) = PairDiff(3)
    /\ InputSeries("V-bat")[2].value # InputSeries("V-bat")[3].value
    /\ Get(analysis, "A").max_diff_time = InputSeries("V-bat")[2].time
    /\ Get(analysis, "A").max_v_bat = << Float(InputSeries("V-bat")[2].value) >>


\* C23: current_v_bat is the value of the last record of the battery-voltage
\* series whenever that series has a record, and current_vbms the value of the
\* last record of the BMS-voltage series whenever that series has a record,
\* whatever the other series holds, also when it is empty
C23_CurrentVoltagesIndependent ==
    (pc = "analyzed" /\ HasKey(analysis, "A")) =>
        /\ InputSeries("V-bat") # <<>> =>
             Get(analysis, "A").current_v_bat
                = << Float(Last(InputSeries("V-bat")).value) >>
        /\ InputSeries("BMS Voltage") # <<>> =>
             Get(analysis, "A").current_vbms
                = << Float(Last(InputSeries("BMS Voltage")).value) >>


C25_NoCycleTouchesValidator ==
    [][pc' = "sleeping" =>
          /\ validator' = validator
          /\ cache_file' = cache_file
          /\ last_refresh_file' = last_refresh_file]_vars

\* C25, amended: a fetch cycle that starts with a validator changes neither the
\* validator nor the two cache files; a cycle that starts without one leaves them
\* alone or sets the validator to the snapshot of its own discovery and stores
\* it; and the validator and the files change in no other step than such a
\* cycle, a discovery refresh, the load at construction and the end of the
\* process, the last two leaving the files alone
C25_OnlyFirstCycleAndRefreshWrite ==
    /\ [][(pc' = "sleeping" /\ validator # <<>>) =>
            /\ validator' = validator
            /\ cache_file' = cache_file
            /\ last_refresh_file' = last_refresh_file]_vars
    /\ [][(pc' = "sleeping" /\ validator = <<>>) =>
            \/ /\ validator' = <<>>
               /\ cache_file' = cache_file
               /\ last_refresh_file' = last_refresh_file
            \/ /\ discovered' # <<>> /\ discovered'[1] # <<>>
               /\ validator' = discovered'
               /\ cache_file' = << JsonDump(discovered'[1]) >>
               /\ last_refresh_file' = << IsoFormat(today) >>]_vars
    /\ [][(validator' # validator \/ cache_file' # cache_file
           \/ last_refresh_file' # last_refresh_file) =>
            \/ pc' = "refreshed"
            \/ pc' = "sleeping" /\ validator = <<>>
            \/ /\ pc' \in {"constructed", "down"}
               /\ cache_file' = cache_file
               /\ last_refresh_file' = last_refresh_file]_vars

\* a cycle that ran with a validator stored on an earlier day and fetched a
\* site: no discovery, and the marker is still that of the earlier day
C25_Witness ==
    /\ pc = "sleeping"
    /\ env.d.auth = "unused"
    /\ validator # <<>> /\ validator = stored
    /\ fetched # <<>>
    /\ last_refresh_file # <<>> /\ FromIsoDate(last_refresh_file[1]) < today


\* C26: a discovery refresh whose discovery returns an empty snapshot leaves the
\* validator, the cache file and the marker file as they were
C26_EmptyRefreshKeepsValidator ==
    [][(pc' = "refreshed" /\ discovered' = << <<>> >>) =>
          /\ validator' = validator
          /\ cache_file' = cache_file
          /\ last_refresh_file' = last_refresh_file]_vars

\* C27: a fetch cycle that starts without a validator begins with a discovery
\* (a token request first); when the discovery returns an empty snapshot the
\* validator stays absent, the two cache files stay as they are, the cycle makes
\* no other request than those of the discovery and returns an empty mapping;
\* when it returns a snapshot with a site the validator is that snapshot, and
\* the cache file and the marker of the day are written; a validator, once
\* there, stays until the process ends, and a cycle that starts with one makes
\* no request of a discovery
C27_DiscoverUntilValidator ==
    /\ [][(pc' = "sleeping" /\ validator = <<>>) =>
            /\ env'.d.auth # "unused"
            /\ requests' # <<>> /\ requests'[1].kind = "token"
            /\ discovered' # <<>>
            /\ IF discovered'[1] = <<>>
               THEN /\ validator' = <<>>
                    /\ cache_file' = cache_file
                    /\ last_refresh_file' = last_refresh_file
                    /\ RequestsOf({"today", "yesterday"})' = {}
                    /\ Cardinality(RequestsOf({"token"})') = 1
                    /\ fetched' = <<>>
               ELSE /\ validator' = discovered'
                    /\ cache_file' = << JsonDump(discovered'[1]) >>
                    /\ last_refresh_file' = << IsoFormat(today) >>]_vars
    /\ [][(validator # <<>> /\ pc' # "down") => validator' # <<>>]_vars
    /\ [][(pc' = "sleeping" /\ validator # <<>>) =>
            /\ env'.d.auth = "unused"
            /\ RequestsOf({"plants", "inverters"})' = {}
            /\ Cardinality(RequestsOf({"token"})') = 1]_vars

\* a cycle without a validator, on a later day than the start, whose discovery
\* had a token and assembled no site: still no validator and no cache file
C27_Witness ==
    /\ pc = "sleeping"
    /\ validator = <<>>
    /\ env.d.auth = "ok"
    /\ discovered = << <<>> >>
    /\ RequestsOf({"plants"}) # {}
    /\ cache_file = <<>>
    /\ today > 1


\* C28 as stated: after every fetch cycle that had a validator, the marker of
\* the store of its snapshot has the date of the current day
C28_SnapshotOfToday ==
    (pc = "sleeping" /\ validator # <<>>) =>
        /\ last_refresh_file # <<>>
        /\ FromIsoDate(last_refresh_file[1]) = today

\* C28, amended: the snapshot of the validator is always the one in the cache
\* file, stored with the marker of the day of its discovery; a validator built at
\* construction comes from a cache whose marker has the date of the current
\* day; a validator set by a cycle or a refresh is stored with the marker of
\* the current day; and a validator drives the cycles of the running process
\* with the marker of the current or of an earlier day
C28_SnapshotOfTodayWhenBuilt ==
    /\ [](validator # <<>> =>
            /\ cache_file = << JsonDump(validator[1]) >>
            /\ last_refresh_file # <<>>
            /\ FromIsoDate(last_refresh_file[1]) <= today)
    /\ [][(validator' # validator /\ validator' # <<>>) =>
            /\ today' = today
            /\ FromIsoDate(last_refresh_file'[1]) = today]_vars
    /\ [](pc = "constructed" /\ validator # <<>> =>
            FromIsoDate(last_refresh_file[1]) = today)

\* a cycle on the second day that requested telemetry with the validator of a
\* snapshot stored on the first day
C28_Witness ==
    /\ pc = "sleeping"
    /\ today = 2
    /\ validator # <<>> /\ cache_file = << JsonDump(validator[1]) >>
    /\ FromIsoDate(last_refresh_file[1]) = 1
    /\ RequestsOf({"today"}) # {}
    /\ RequestsOf({"plants"}) = {}


\* C29: whatever the order in which the page tasks and their retries run, the
\* plants are merged in page order, the roster requests are made in that order,
\* and the snapshot is the one that get_all_sites gives for the fleet and the
\* outcomes of the requests alone: one entry for each name, at the place of the
\* first listed plant with the name and with the id and the roster of the last
\* one, the plant of the higher page
C29_SnapshotIndependentOfOrder ==
    /\ [](pc \in {"rosters", "telemetry", "done"} /\ tasks # <<>> =>
            GatheredPlants = PlantsExpected)
    /\ [](pc \in {"telemetry", "done"} /\ env.d.auth = "ok" =>
            /\ KeysAsked("inverters")
                 = [i \in 1..Len(PlantsExpected) |-> Str(PlantsExpected[i].id)]
            /\ discovered = << fetch_all_sites(upstream, env.d).all_sites >>
            /\ Keys(discovered[1])
                 = {PlantsExpected[i].name : i \in 1..Len(PlantsExpected)}
            /\ \A i \in 1..Len(PlantsExpected) :
                 (\A j \in (i + 1)..Len(PlantsExpected) :
                      PlantsExpected[j].name # PlantsExpected[i].name) =>
                     LET entry == Get(discovered[1], PlantsExpected[i].name)
                     IN  /\ entry.id = PlantsExpected[i].id
                         /\ entry.inverters =
                              (IF env.d.roster_out[PlantsExpected[i].id] = "ok"
                               THEN << RosterDict(PlantsExpected[i].inverters, <<>>) >>
                               ELSE << <<>> >>))

\* both pages list a plant named A, the task of the first page had to retry:
\* both rosters were requested in page order and the one entry of the snapshot
\* has the id and the roster of the plant of the second page
C29_Witness ==
    /\ pc = "done"
    /\ upstream[2].name = upstream[1].name
    /\ tasks # <<>> /\ tasks[1].attempt > 0 /\ tasks[1].response # <<>>
    /\ KeysAsked("inverters") = << Str(PlantId(1)), Str(PlantId(2)) >>
    /\ discovered # <<>> /\ Len(discovered[1]) = 1
    /\ discovered[1][1].value.id = PlantId(2)
    /\ discovered[1][1].value.inverters = << RosterDict(upstream[2].inverters, <<>>) >>

\* C30: every SiteValidation that validate_sites returns is valid exactly when
\* has_inverters is true and exactly when inverter_sn is set; a valid one has
\* exists, id_matches and an inverter_type of M or M1; exists, id_matches and
\* "the configured site_id is a site id of the snapshot" are the same; a site
\* that is in the snapshot without a roster, with an empty roster or with only
\* inverters of types other than M, M1 and unset has exists and id_matches
\* true, has_inverters false, the status invalid and no serial
C30_ValidationInvariants ==
    pc = "validated" =>
        /\ Keys(validated_sites) = {sites_config[i].name : i \in 1..Len(sites_config)}
        /\ \A i \in 1..Len(sites_config) :
            LET v == Get(validated_sites, sites_config[i].name)
                present == i \notin AbsentSites(validator[1])
            IN  /\ v.status \in {"valid", "invalid"}
                /\ (v.status = "valid") <=> v.has_inverters
                /\ v.has_inverters <=> (v.inverter_sn # NONE)
                /\ v.status = "valid" =>
                       v.exists /\ v.id_matches /\ v.inverter_type \in {"M", "M1"}
                /\ v.exists <=> v.id_matches
                /\ v.id_matches <=> present
                /\ present =>
                       LET roster == RosterOfEntry(SnapshotSiteOf(validator[1],
                                                       Str(sites_config[i].site_id)))
                       IN  (\A k \in 1..Len(roster) :
                                roster[k].value \notin {"M", "M1", NONE}) =>
                               /\ v.exists /\ v.id_matches /\ ~v.has_inverters
                               /\ v.status = "invalid"
                               /\ v.inverter_sn = NONE

\* C30 witness: a configuration of two sites of the snapshot, the first valid
\* with an inverter of type M, the second with a full roster of inverters of
\* another type and so invalid though it exists
C30_Witness ==
    /\ pc = "validated"
    /\ Len(sites_config) = 2
    /\ AbsentSites(validator[1]) = {}
    /\ LET v == Get(validated_sites, sites_config[1].name)
       IN  v.status = "valid" /\ v.inverter_type = "M" /\ v.inverter_sn # NONE
    /\ LET roster == RosterOfEntry(SnapshotSiteOf(validator[1],
                                       Str(sites_config[2].site_id)))
           v == Get(validated_sites, sites_config[2].name)
       IN  /\ Len(roster) = MaxRoster
           /\ \A k \in 1..Len(roster) : roster[k].value = "X"
           /\ v.exists /\ v.id_matches /\ v.status = "invalid"


====
